---- MODULE Spec2Model ----
(***************************************************************************)
(* Verification model of isotree's sampling and partitioning utilities      *)
(* (src/src/utils.hpp): the weighted binary-tree sampler, the row sampler,  *)
(* the ColumnSampler object and the divide_subset_split partitioners.       *)
(*                                                                          *)
(* Arrays are functions over 0..size-1 so that the C++ index arithmetic is  *)
(* kept as written.  Weights are integers: the only use the code makes of   *)
(* a random real r drawn in [0, w) is the comparison r >= w_left, and with  *)
(* integer weights the integer draws 0..w-1 produce exactly the same set of *)
(* comparison outcomes.                                                     *)
(***************************************************************************)
EXTENDS Integers, Sequences, FiniteSets, TLC

(* ------------------------------------------------------------------ *)
(* Bounds of the model                                                 *)
(* ------------------------------------------------------------------ *)
MaxN == 4
MaxW == 2
MaxRows == 6
BigRows == 40
SmallTake == 2
MaxCols == 3
RestrictCols == 4

(* ------------------------------------------------------------------ *)
(* Generic helpers                                                     *)
(* ------------------------------------------------------------------ *)
RECURSIVE pow2(_)
pow2(n) == IF n = 0 THEN 1 ELSE 2 * pow2(n - 1)

ix_parent(ix) == (ix - 1) \div 2

ix_child(ix) == 2 * ix + 1

(* Arrays as functions over 0..n-1 *)
ArrOf(n, S) == [0 .. n - 1 -> S]

Iota(n) == [i \in 0 .. n - 1 |-> i]

Swap(a, i, j) == [a EXCEPT ![i] = a[j], ![j] = a[i]]

Range(f) == {f[i] : i \in DOMAIN f}

Perms(n) == {p \in ArrOf(n, 0 .. n - 1) : Range(p) = 0 .. n - 1}

(* ------------------------------------------------------------------ *)
(* log2ceil, 64-bit variant (utils.hpp:70-92)                          *)
(* ------------------------------------------------------------------ *)
tab64 ==
    << 63,  0, 58,  1, 59, 47, 53,  2,
       60, 39, 48, 27, 54, 33, 42,  3,
       61, 51, 37, 40, 49, 18, 28, 20,
       55, 30, 34, 11, 43, 14, 22,  4,
       62, 57, 46, 52, 38, 26, 32, 41,
       50, 36, 17, 19, 29, 10, 13, 21,
       56, 45, 25, 31, 35, 16,  9, 12,
       44, 24, 15,  8, 23,  7,  6,  5 >>

RECURSIVE BitOr(_, _)
BitOr(a, b) ==
    IF a = 0 THEN b
    ELSE IF b = 0 THEN a
    ELSE (IF a % 2 = 1 \/ b % 2 = 1 THEN 1 ELSE 0) + 2 * BitOr(a \div 2, b \div 2)

(* v >> k; the values of the model are below 2^31 *)
Shr(v, k) == IF k >= 31 THEN 0 ELSE v \div pow2(k)

(* value |= value >> k, for the six shifts of the source *)
Smear(v) ==
    LET v1 == BitOr(v, Shr(v, 1))
        v2 == BitOr(v1, Shr(v1, 2))
        v4 == BitOr(v2, Shr(v2, 4))
        v8 == BitOr(v4, Shr(v4, 8))
        v16 == BitOr(v8, Shr(v8, 16))
    IN  BitOr(v16, Shr(v16, 32))

(* ((uint64_t)(x * 0x07EDD5E59A4E28C2)) >> 58, for x < 2^15: the constant is
   held as four 16-bit limbs (low limb first) and the product is taken modulo
   2^64, limb by limb with carry. *)
DeBruijnTop6(x) ==
    LET p0 == 10434 * x
        p1 == 39502 * x + (p0 \div 65536)
        p2 == 54757 * x + (p1 \div 65536)
        p3 == 2029 * x + (p2 \div 65536)
    IN  (p3 % 65536) \div 1024

log2ceil(value) ==
    LET v == Smear(value - 1)
    IN  tab64[DeBruijnTop6(v - Shr(v, 1)) + 1] + 1

(* ------------------------------------------------------------------ *)
(* State                                                               *)
(* ------------------------------------------------------------------ *)
VARIABLES
    prog,          \* which routine this behaviour runs
    pc,            \* position inside the routine
    weights,       \* the weights argument (function over 0..n-1)
    n,             \* number of items (n / nrows / n_cols of the routine)
    buffer_arr,    \* weighted_shuffle: the weight tree
    tree_levels,   \* tree_levels of weighted_shuffle and of ColumnSampler
    outp,          \* weighted_shuffle: output, as the sequence written so far
    el,            \* weighted_shuffle: loop counter
    ntake,         \* sample_random_rows: ix_arr.size()
    ix_arr,        \* sample_random_rows: the output vector
    ix_all,        \* sample_random_rows: scratch vector of all indices
    is_repeated,   \* sample_random_rows: scratch vector of flags
    repeated_set,  \* sample_random_rows: the local unordered_set
    btree_weights, \* sample_random_rows: the weight tree of build_btree_sampler
    log2_n,        \* sample_random_rows: levels of btree_weights
    btree_offset,  \* sample_random_rows: index of the first leaf
    loop_ix,       \* sample_random_rows: loop variable (i, rnd_ix or output position)
    in_range,      \* FALSE once an index outside a vector's declared range, or a
                   \* member that was never assigned, was used
    tree_weights,  \* ColumnSampler::tree_weights
    col_indices,   \* ColumnSampler::col_indices
    curr_pos,      \* ColumnSampler::curr_pos
    curr_col,      \* ColumnSampler::curr_col
    last_given,    \* ColumnSampler::last_given
    offset,        \* ColumnSampler::offset
    n_dropped,     \* ColumnSampler::n_dropped
    dropped,       \* observer: the columns drop_col was called for since initialize
    obs,           \* observer: the last call on the sampler, what it returned, and
                   \* how the sampler has been used so far
    x,             \* divide_subset_split: the dense column (values or category codes)
    st,            \* divide_subset_split: first position of the slice
    end,           \* divide_subset_split: last position of the slice
    split_point,   \* divide_subset_split: the threshold
    split_categ,   \* divide_subset_split: the category flags, or the single category
    missing_action, \* divide_subset_split: Fail or a mode that looks at missing values
    st_NA,         \* divide_subset_split: output
    end_NA,        \* divide_subset_split: output
    split_ix,      \* divide_subset_split: output
    Xc,            \* divide_subset_split: values of the sparse column
    Xc_ind,        \* divide_subset_split: row indices of the sparse column
    stray,         \* divide_subset_split: what Xc_ind holds right before and right
                   \* after the column's own entries
    ix_before,     \* observer: ix_arr at the time of the call
    sw,            \* SignalSwitcher objects: lifetime position, is_active, old_sig
    interrupt_switch, \* the global flag the handler sets
    handle_is_locked, \* the global lock flag of the switchers
    sigint,        \* the handler installed for SIGINT
    build,          \* compile-time switches and the handler the caller had
    value64,       \* log2ceil: the argument, as eight 8-bit limbs, low limb first
    result,         \* log2ceil: the value returned
    counter,       \* increase_comb_counter: the counter array
    acc,           \* observer: the amount each pair of points should have by now
    exp_remainder, \* increase_comb_counter: argument of the last call
    calls,         \* observer: number of calls so far
    dmat,          \* tmat_to_dense: the dense matrix, row after row
    diag_to_one,    \* tmat_to_dense: argument
    ncat,               \* number of categories the column had when fitting
    new_cat_action,     \* what to do with a category not seen when fitting
    move_new_to_left,    \* whether new categories go with the smaller branch, on the left
    with_replacement,   \* sample_random_rows: argument
    rnd_generator,      \* the numbers the random engine gives, in order
    twin,                \* observer: the same call on fresh vectors, and the vectors on entry
    n_final,            \* expected_separation_depth: the argument n
    curr,               \* expected_separation_depth_hotstart: the running value at n_final
    s_l,                \* the value returned for n_final - 1
    s_u,                \* the value returned for n_final
    interp,             \* the fractional overload: argument and value returned
    frames,              \* harmonic_recursive: the calls that have not returned yet
    xmin,               \* get_range: output
    xmax,               \* get_range: output
    unsplittable,        \* get_range: output
    critical,           \* who is inside the unnamed omp critical region
    handler_at,         \* where the signal handler is, on the stack of the thread
    delivered           \* observer: number of SIGINT delivered to the handler

shuffleVars == <<buffer_arr, outp, el>>

rowsVars == <<ntake, ix_arr, ix_all, is_repeated, repeated_set,
              btree_weights, log2_n, btree_offset, loop_ix>>

samplerVars == <<tree_weights, col_indices, curr_pos, curr_col, last_given,
                 offset, n_dropped, dropped, obs>>

divideVars == <<x, st, end, split_point, split_categ, missing_action, st_NA, end_NA,
                split_ix, Xc, Xc_ind, stray, ix_before>>

signalVars == <<sw, interrupt_switch, handle_is_locked, sigint, build>>

log2Vars == <<value64, result>>

combVars == <<counter, acc, exp_remainder, calls, dmat, diag_to_one>>

predictVars == <<ncat, new_cat_action, move_new_to_left>>

reproVars == <<with_replacement, rnd_generator, twin>>

depthVars == <<n_final, curr, s_l, s_u, interp, frames>>

rangeVars == <<xmin, xmax, unsplittable>>

deliverVars == <<critical, handler_at, delivered>>

vars == <<prog, deliverVars, rangeVars, depthVars, reproVars, predictVars, combVars, log2Vars, signalVars, pc, weights, n, tree_levels, in_range, shuffleVars, rowsVars,
         samplerVars, divideVars>>

(* values of the variables a routine does not use *)
IdleDeliver ==
    /\ critical = "" /\ handler_at = "none" /\ delivered = 0

IdleRange ==
    /\ xmin = 0 /\ xmax = 0 /\ unsplittable = FALSE

IdleDepth ==
    /\ n_final = 0 /\ curr = <<>> /\ s_l = <<>> /\ s_u = <<>> /\ interp = <<>> /\ frames = <<>>

IdleRepro ==
    /\ with_replacement = FALSE /\ rnd_generator = <<>> /\ twin = <<>>

IdlePredict ==
    /\ ncat = 0 /\ new_cat_action = "" /\ move_new_to_left = FALSE

IdleComb ==
    /\ counter = <<>> /\ acc = <<>> /\ exp_remainder = 0 /\ calls = 0
    /\ dmat = <<>> /\ diag_to_one = FALSE

IdleLog2 ==
    /\ value64 = <<>> /\ result = 0

IdleSignal ==
    /\ sw = <<>> /\ interrupt_switch = FALSE /\ handle_is_locked = FALSE
    /\ sigint = "" /\ build = <<>>

IdleShuffle ==
    /\ buffer_arr = <<>> /\ outp = <<>> /\ el = 0

IdleRows ==
    /\ ntake = 0 /\ ix_arr = <<>> /\ ix_all = <<>> /\ is_repeated = <<>>
    /\ repeated_set = {} /\ btree_weights = <<>> /\ log2_n = 0
    /\ btree_offset = 0 /\ loop_ix = 0

IdleDivide ==
    /\ x = <<>> /\ st = 0 /\ end = 0 /\ split_point = 0 /\ split_categ = <<>>
    /\ missing_action = "Fail" /\ st_NA = 0 /\ end_NA = 0 /\ split_ix = 0
    /\ Xc = <<>> /\ Xc_ind = <<>> /\ stray = <<>> /\ ix_before = <<>>

IdleSampler ==
    /\ tree_weights = <<>> /\ col_indices = <<>> /\ curr_pos = 0 /\ curr_col = 0
    /\ last_given = 0 /\ offset = 0 /\ n_dropped = 0 /\ dropped = {} /\ obs = <<>>

(* ------------------------------------------------------------------ *)
(* Weighted sampling tree (utils.hpp:417-442, 615-672)                 *)
(* ------------------------------------------------------------------ *)
WeightDomain == (-1) .. MaxW

WeightVectors == UNION {ArrOf(k, WeightDomain) : k \in 2 .. MaxN}

(* std::fmax(0., w) *)
fmax0(w) == IF w > 0 THEN w ELSE 0

(* for (ix = size - 1; ix > 0; ix--) tree[ix_parent(ix)] += tree[ix]; *)
RECURSIVE SumUp(_, _)
SumUp(tree, ix) ==
    IF ix = 0 THEN tree
    ELSE SumUp([tree EXCEPT ![ix_parent(ix)] = @ + tree[ix]], ix - 1)

(* the zero-filled tree with the clamped weights at the leaves, summed up *)
BuildTree(w, nitems, levels) ==
    LET size == pow2(levels + 1)
        first == pow2(levels) - 1
        leaves == [ix \in 0 .. size - 1 |->
                     IF ix >= first /\ ix - first < nitems
                     THEN fmax0(w[ix - first]) ELSE 0]
    IN  SumUp(leaves, size - 1)

(* std::uniform_real_distribution<double>(0., curr_subrange): the values that
   matter for the comparison with w_left; for an empty range the library
   returns the lower end, 0. *)
Draws(curr_subrange) == IF curr_subrange > 0 THEN 0 .. curr_subrange - 1 ELSE {0}

(* a descent that takes the left child at every level, whatever the draw *)
RECURSIVE DescendLeft(_, _, _, _)
DescendLeft(tree, curr_ix, lev, levels) ==
    IF lev = levels THEN {curr_ix}
    ELSE DescendLeft(tree, ix_child(curr_ix), lev + 1, levels)

(* a descent that goes right when the draw is below the left child's weight *)
RECURSIVE DescendFlipped(_, _, _, _)
DescendFlipped(tree, curr_ix, lev, levels) ==
    IF lev = levels THEN {curr_ix}
    ELSE UNION { DescendFlipped(tree,
                         ix_child(curr_ix)
                           + (IF rnd_subrange < tree[ix_child(curr_ix)] THEN 1 ELSE 0),
                         lev + 1, levels)
                 : rnd_subrange \in Draws(tree[curr_ix]) }

(* the descent loop: the set of leaves the random draws can end on *)
RECURSIVE Descend(_, _, _, _)
Descend(tree, curr_ix, lev, levels) ==
    IF lev = levels THEN {curr_ix}
    ELSE UNION { Descend(tree,
                         ix_child(curr_ix)
                           + (IF rnd_subrange >= tree[ix_child(curr_ix)] THEN 1 ELSE 0),
                         lev + 1, levels)
                 : rnd_subrange \in Draws(tree[curr_ix]) }

(* a removal that clears the leaf and leaves its ancestors as they were *)
ResumNothing(tree, curr_ix, lev) == tree

(* tree[curr_ix] = 0, then re-sum every ancestor from its two children *)
RECURSIVE Resum(_, _, _)
Resum(tree, curr_ix, lev) ==
    IF lev = 0 THEN tree
    ELSE LET p == ix_parent(curr_ix)
         IN  Resum([tree EXCEPT ![p] = tree[ix_child(p)] + tree[ix_child(p) + 1]],
                   p, lev - 1)

RemoveLeaf(tree, curr_ix, levels) ==
    Resum([tree EXCEPT ![curr_ix] = 0], curr_ix, levels)

(* ---- weighted_shuffle ---- *)
InitShuffle ==
    /\ prog = "weighted_shuffle"
    /\ pc = "start"
    /\ weights \in WeightVectors
    /\ n = Cardinality(DOMAIN weights)
    /\ tree_levels = 0
    /\ in_range = TRUE
    /\ IdleShuffle
    /\ IdleDeliver
    /\ IdleRange
    /\ IdleDepth
    /\ IdleRepro
    /\ IdlePredict
    /\ IdleComb
    /\ IdleLog2
    /\ IdleSignal
    /\ IdleRows
    /\ IdleSampler
    /\ IdleDivide

(* lines 619-639: build the tree; invalid weights give an unweighted shuffle *)
ShuffleBuild ==
    /\ prog = "weighted_shuffle" /\ pc = "start"
    /\ LET levels == log2ceil(n)
           tree == BuildTree(weights, n, levels)
       IN  /\ tree_levels' = levels
           /\ buffer_arr' = tree
           /\ IF tree[0] <= 0
              THEN /\ \E p \in Perms(n) : outp' = [i \in 1 .. n |-> p[i - 1]]
                   /\ el' = n
                   /\ pc' = "fallback"
              ELSE /\ outp' = <<>>
                   /\ el' = 0
                   /\ pc' = "draw"
    /\ UNCHANGED <<prog, deliverVars, rangeVars, depthVars, reproVars, predictVars, combVars, log2Vars, signalVars, divideVars, weights, n, in_range, rowsVars, samplerVars>>

(* lines 646-671: one iteration of the draw-then-remove loop *)
ShuffleDraw ==
    /\ prog = "weighted_shuffle" /\ pc = "draw"
    /\ el < n
    /\ \E curr_ix \in Descend(buffer_arr, 0, 0, tree_levels) :
          /\ outp' = Append(outp, curr_ix - (pow2(tree_levels) - 1))
          /\ buffer_arr' = RemoveLeaf(buffer_arr, curr_ix, tree_levels)
    /\ el' = el + 1
    /\ pc' = IF el + 1 = n THEN "done" ELSE "draw"
    /\ UNCHANGED <<prog, deliverVars, rangeVars, depthVars, reproVars, predictVars, combVars, log2Vars, signalVars, divideVars, weights, n, tree_levels, in_range, rowsVars, samplerVars>>

NextShuffle == ShuffleBuild \/ ShuffleDraw

SpecShuffle == InitShuffle /\ [][NextShuffle]_vars

(* ------------------------------------------------------------------ *)
(* sample_random_rows (utils.hpp:444-612) and build_btree_sampler      *)
(* ------------------------------------------------------------------ *)
NULL == <<>>

(* the pairs (nrows, ntake): every sample size of a small population, and the
   small samples of a population large enough for ntake / nrows <= 1/20 *)
RowsInputs ==
    {<<nr, nt>> \in (1 .. MaxRows) \X (0 .. MaxRows) : nt <= nr}
      \cup {<<nr, nt>> \in {BigRows} \X (0 .. SmallTake) : TRUE}

(* what a vector can hold on entry: its contents are left over from earlier calls *)
StaleIxArr(nt, nr) == [i \in 0 .. nt - 1 |-> nr]

StaleIxAll(nr) == {<<>>, [i \in 0 .. nr - 1 |-> nr - 1 - i]}

StaleIsRepeated(nr) == {<<>>, [i \in 0 .. nr - 1 |-> TRUE]}

InBounds(a, i) == i \in DOMAIN a

(* a build that keeps the summed tree and its depth whatever the total is *)
BuildKeepsTree(sample_weights, nrows) ==
    LET levels == log2ceil(nrows)
    IN  [btree_weights |-> BuildTree(sample_weights, nrows, levels),
         log2_n |-> levels, btree_offset |-> pow2(levels) - 1]

(* the result of build_btree_sampler on an empty or same-sized vector *)
build_btree_sampler(sample_weights, nrows) ==
    LET levels == log2ceil(nrows)
        tree == BuildTree(sample_weights, nrows, levels)
    IN  IF tree[0] <= 0
        THEN [btree_weights |-> <<>>, log2_n |-> 0, btree_offset |-> pow2(levels) - 1]
        ELSE [btree_weights |-> tree, log2_n |-> levels,
              btree_offset |-> pow2(levels) - 1]

InitRows ==
    /\ prog = "sample_random_rows"
    /\ pc = "start"
    /\ \E inp \in RowsInputs :
          /\ n = inp[1]
          /\ ntake = inp[2]
          /\ ix_arr = StaleIxArr(inp[2], inp[1])
          /\ \/ /\ weights = NULL
                /\ ix_all \in StaleIxAll(inp[1])
                /\ is_repeated \in StaleIsRepeated(inp[1])
             \/ /\ inp[1] \in 2 .. MaxN
                /\ weights \in ArrOf(inp[1], WeightDomain)
                /\ ix_all = <<>>
                /\ is_repeated = <<>>
    /\ repeated_set = {}
    /\ btree_weights = <<>>
    /\ log2_n = 0
    /\ btree_offset = 0
    /\ loop_ix = 0
    /\ in_range = TRUE
    /\ tree_levels = 0
    /\ IdleShuffle
    /\ IdleDeliver
    /\ IdleRange
    /\ IdleDepth
    /\ IdleRepro
    /\ IdlePredict
    /\ IdleComb
    /\ IdleLog2
    /\ IdleSignal
    /\ IdleSampler
    /\ IdleDivide

(* the caller's build_btree_sampler(btree_weights, sample_weights, nrows, ...) *)
RowsBuild ==
    /\ prog = "sample_random_rows" /\ pc = "start"
    /\ weights # NULL
    /\ LET b == build_btree_sampler(weights, n)
       IN  /\ btree_weights' = b.btree_weights
           /\ log2_n' = b.log2_n
           /\ btree_offset' = b.btree_offset
           /\ pc' = IF b.btree_weights = <<>> THEN "no_weights" ELSE "built"
    /\ UNCHANGED <<prog, deliverVars, rangeVars, depthVars, reproVars, predictVars, combVars, log2Vars, signalVars, divideVars, weights, n, tree_levels, shuffleVars, samplerVars, ntake, ix_arr, ix_all,
                   is_repeated, repeated_set, loop_ix, in_range>>

(* lines 471-474: all the elements are needed *)
RowsIdentity ==
    /\ prog = "sample_random_rows"
    /\ \/ pc = "start" /\ weights = NULL
       \/ pc = "built"
    /\ ntake = n
    /\ ix_arr' = Iota(ntake)
    /\ pc' = "done"
    /\ UNCHANGED <<prog, deliverVars, rangeVars, depthVars, reproVars, predictVars, combVars, log2Vars, signalVars, divideVars, weights, n, tree_levels, shuffleVars, samplerVars, ntake, ix_all, is_repeated,
                   repeated_set, btree_weights, log2_n, btree_offset, loop_ix, in_range>>

(* lines 479-514: one iteration of the weighted draw-then-remove loop *)
RowsWeightedDraw ==
    /\ prog = "sample_random_rows"
    /\ pc \in {"built", "weighted"}
    /\ ntake # n
    /\ loop_ix < ntake
    /\ \E curr_ix \in Descend(btree_weights, 0, 0, log2_n) :
          /\ ix_arr' = [ix_arr EXCEPT ![loop_ix] = curr_ix - btree_offset]
          /\ btree_weights' = RemoveLeaf(btree_weights, curr_ix, log2_n)
    /\ loop_ix' = loop_ix + 1
    /\ pc' = IF loop_ix + 1 = ntake THEN "done" ELSE "weighted"
    /\ UNCHANGED <<prog, deliverVars, rangeVars, depthVars, reproVars, predictVars, combVars, log2Vars, signalVars, divideVars, weights, n, tree_levels, shuffleVars, samplerVars, ntake, ix_all, is_repeated,
                   repeated_set, log2_n, btree_offset, in_range>>

(* lines 522-536: ntake >= nrows / 2 and ntake >= nrows * 3 / 4: full shuffle *)
RowsFullShuffle ==
    /\ prog = "sample_random_rows" /\ pc = "start" /\ weights = NULL
    /\ ntake # n
    /\ ntake >= n \div 2
    /\ ntake >= (n * 3) \div 4
    /\ \E p \in Perms(n) :
          /\ ix_all' = p
          /\ ix_arr' = [i \in 0 .. ntake - 1 |-> p[i]]
    /\ pc' = "done"
    /\ UNCHANGED <<prog, deliverVars, rangeVars, depthVars, reproVars, predictVars, combVars, log2Vars, signalVars, divideVars, weights, n, tree_levels, shuffleVars, samplerVars, ntake, is_repeated, repeated_set,
                   btree_weights, log2_n, btree_offset, loop_ix, in_range>>

(* lines 525-529, 539-542: iota, then enter the partial shuffle at i = nrows - 1 *)
RowsYatesBegin ==
    /\ prog = "sample_random_rows" /\ pc = "start" /\ weights = NULL
    /\ ntake # n
    /\ ntake >= n \div 2
    /\ ~(ntake >= (n * 3) \div 4)
    /\ ix_all' = Iota(n)
    /\ loop_ix' = n - 1
    /\ pc' = "yates"
    /\ UNCHANGED <<prog, deliverVars, rangeVars, depthVars, reproVars, predictVars, combVars, log2Vars, signalVars, divideVars, weights, n, tree_levels, shuffleVars, samplerVars, ntake, ix_arr, is_repeated,
                   repeated_set, btree_weights, log2_n, btree_offset, in_range>>

(* lines 542-547: one iteration of the partial Fisher-Yates loop *)
RowsYatesStep ==
    /\ prog = "sample_random_rows" /\ pc = "yates"
    /\ loop_ix >= n - ntake
    /\ \E chosen \in 0 .. loop_ix :
          LET ok == /\ InBounds(ix_arr, n - loop_ix - 1)
                    /\ InBounds(ix_all, chosen)
                    /\ InBounds(ix_all, loop_ix)
          IN  /\ in_range' = (in_range /\ ok)
              /\ IF ok
                 THEN /\ ix_arr' = [ix_arr EXCEPT ![n - loop_ix - 1] = ix_all[chosen]]
                      /\ ix_all' = [ix_all EXCEPT ![chosen] = ix_all[loop_ix]]
                 ELSE UNCHANGED <<ix_arr, ix_all>>
    /\ loop_ix' = loop_ix - 1
    /\ pc' = IF loop_ix - 1 >= n - ntake THEN "yates" ELSE "done"
    /\ UNCHANGED <<prog, deliverVars, rangeVars, depthVars, reproVars, predictVars, combVars, log2Vars, signalVars, divideVars, weights, n, tree_levels, shuffleVars, samplerVars, ntake, is_repeated, repeated_set,
                   btree_weights, log2_n, btree_offset>>

(* Floyd's step without the test for a value already taken *)
TakenAnyway(seen, candidate, rnd_ix) == candidate

(* if the candidate is already marked, take rnd_ix itself, else the candidate *)
Taken(seen, candidate, rnd_ix) == IF seen THEN rnd_ix ELSE candidate

(* lines 554-568, 591: Floyd's algorithm, choice of the bookkeeping structure *)
RowsFloydBegin ==
    /\ prog = "sample_random_rows" /\ pc = "start" /\ weights = NULL
    /\ ntake # n
    /\ ~(ntake >= n \div 2)
    /\ IF ntake * 20 > n
       THEN /\ is_repeated' =
                 IF is_repeated = <<>>
                 THEN [i \in 0 .. n - 1 |-> FALSE]
                 ELSE [i \in DOMAIN is_repeated |-> FALSE]
            /\ pc' = IF n - ntake < n THEN "floyd_vec" ELSE "done"
       ELSE /\ is_repeated' = is_repeated
            /\ pc' = IF n - ntake < n THEN "floyd_set" ELSE "done"
    /\ repeated_set' = {}
    /\ loop_ix' = n - ntake
    /\ UNCHANGED <<prog, deliverVars, rangeVars, depthVars, reproVars, predictVars, combVars, log2Vars, signalVars, divideVars, weights, n, tree_levels, shuffleVars, samplerVars, ntake, ix_arr, ix_all,
                   btree_weights, log2_n, btree_offset, in_range>>

(* lines 568-582: one iteration with the boolean vector *)
RowsFloydVecStep ==
    /\ prog = "sample_random_rows" /\ pc = "floyd_vec"
    /\ loop_ix < n
    /\ \E candidate \in 0 .. loop_ix :
          LET ok == /\ InBounds(is_repeated, candidate)
                    /\ InBounds(is_repeated, loop_ix)
                    /\ InBounds(ix_arr, ntake - (n - loop_ix))
              taken == Taken(is_repeated[candidate], candidate, loop_ix)
          IN  /\ in_range' = (in_range /\ ok)
              /\ IF ok
                 THEN /\ ix_arr' = [ix_arr EXCEPT ![ntake - (n - loop_ix)] = taken]
                      /\ is_repeated' = [is_repeated EXCEPT ![taken] = TRUE]
                 ELSE UNCHANGED <<ix_arr, is_repeated>>
    /\ loop_ix' = loop_ix + 1
    /\ pc' = IF loop_ix + 1 < n THEN "floyd_vec" ELSE "done"
    /\ UNCHANGED <<prog, deliverVars, rangeVars, depthVars, reproVars, predictVars, combVars, log2Vars, signalVars, divideVars, weights, n, tree_levels, shuffleVars, samplerVars, ntake, ix_all, repeated_set,
                   btree_weights, log2_n, btree_offset>>

(* lines 591-605: one iteration with the unordered set *)
RowsFloydSetStep ==
    /\ prog = "sample_random_rows" /\ pc = "floyd_set"
    /\ loop_ix < n
    /\ \E candidate \in 0 .. loop_ix :
          LET ok == InBounds(ix_arr, ntake - (n - loop_ix))
              taken == Taken(candidate \in repeated_set, candidate, loop_ix)
          IN  /\ in_range' = (in_range /\ ok)
              /\ IF ok
                 THEN ix_arr' = [ix_arr EXCEPT ![ntake - (n - loop_ix)] = taken]
                 ELSE UNCHANGED ix_arr
              /\ repeated_set' = repeated_set \cup {taken}
    /\ loop_ix' = loop_ix + 1
    /\ pc' = IF loop_ix + 1 < n THEN "floyd_set" ELSE "done"
    /\ UNCHANGED <<prog, deliverVars, rangeVars, depthVars, reproVars, predictVars, combVars, log2Vars, signalVars, divideVars, weights, n, tree_levels, shuffleVars, samplerVars, ntake, ix_all, is_repeated,
                   btree_weights, log2_n, btree_offset>>

NextRows ==
    \/ RowsBuild
    \/ RowsIdentity
    \/ RowsWeightedDraw
    \/ RowsFullShuffle
    \/ RowsYatesBegin
    \/ RowsYatesStep
    \/ RowsFloydBegin
    \/ RowsFloydVecStep
    \/ RowsFloydSetStep

SpecRows == InitRows /\ [][NextRows]_vars

(* ------------------------------------------------------------------ *)
(* sample_random_rows without weights, as a function of the numbers    *)
(* the random engine gives (utils.hpp:444-461, 471-474, 515-612)       *)
(* ------------------------------------------------------------------ *)
ReproRows == 4

(* std::uniform_int_distribution<size_t>(0, hi)(rnd_generator) on the k-th
   number of the engine *)
UniformInt(rnd, k, hi) == rnd[k] % (hi + 1)

(* for (size_t &ix : ix_arr) ix = runif(rnd_generator); *)
DrawEach(arr, nrows, rnd) ==
    [i \in DOMAIN arr |-> UniformInt(rnd, i, nrows - 1)]

(* std::shuffle(ix_all.begin(), ix_all.end(), rnd_generator): position i, from
   the last one down, is swapped with a position drawn in 0..i *)
RECURSIVE Shuffle(_, _, _, _)
Shuffle(all, i, rnd, k) ==
    IF i < 1 THEN all
    ELSE Shuffle(Swap(all, i, UniformInt(rnd, k, i)), i - 1, rnd, k + 1)

(* the loop of lines 542-547, from i down to nrows - ntake *)
RECURSIVE YatesLoop(_, _, _, _, _, _, _)
YatesLoop(arr, all, nrows, nt, i, rnd, k) ==
    IF i < nrows - nt THEN [ix_arr |-> arr, ix_all |-> all]
    ELSE LET chosen == UniformInt(rnd, k, i)
         IN  YatesLoop([arr EXCEPT ![nrows - i - 1] = all[chosen]],
                       [all EXCEPT ![chosen] = all[i]],
                       nrows, nt, i - 1, rnd, k + 1)

(* the loops of lines 568-582 and 591-605, from rnd_ix up to nrows - 1; seen
   is the set of indices marked in is_repeated or held by repeated_set *)
RECURSIVE FloydLoop(_, _, _, _, _, _, _)
FloydLoop(arr, seen, nrows, nt, rnd_ix, rnd, k) ==
    IF rnd_ix >= nrows THEN [ix_arr |-> arr, seen |-> seen]
    ELSE LET candidate == UniformInt(rnd, k, rnd_ix)
             taken == Taken(candidate \in seen, candidate, rnd_ix)
         IN  FloydLoop([arr EXCEPT ![nt - (nrows - rnd_ix)] = taken],
                       seen \cup {taken}, nrows, nt, rnd_ix + 1, rnd, k + 1)

(* lines 559-562 with the vector left as the earlier call marked it *)
KeepMarks(rep, nrows) ==
    IF rep = <<>> THEN [i \in 0 .. nrows - 1 |-> FALSE] ELSE rep

(* lines 559-562: is_repeated.resize(nrows, false) or assign(size, false) *)
ClearMarks(rep, nrows) ==
    IF rep = <<>> THEN [i \in 0 .. nrows - 1 |-> FALSE]
    ELSE [i \in DOMAIN rep |-> FALSE]

(* the whole call for sample_weights == NULL: what it leaves in ix_arr,
   ix_all and is_repeated *)
sample_random_rows(arr, nrows, replace, rnd, all, rep) ==
    LET nt == Cardinality(DOMAIN arr)
    IN  IF replace
        THEN [ix_arr |-> DrawEach(arr, nrows, rnd), ix_all |-> all, is_repeated |-> rep]
        ELSE IF nt = nrows
        THEN [ix_arr |-> Iota(nt), ix_all |-> all, is_repeated |-> rep]
        ELSE IF nt >= nrows \div 2
        THEN LET sized == IF all = <<>> THEN [i \in 0 .. nrows - 1 |-> 0] ELSE all
                 filled == [i \in DOMAIN sized |-> i]
             IN  IF nt >= (nrows * 3) \div 4
                 THEN LET s == Shuffle(filled, Cardinality(DOMAIN filled) - 1, rnd, 0)
                      IN  [ix_arr |-> [i \in 0 .. nt - 1 |-> s[i]], ix_all |-> s,
                           is_repeated |-> rep]
                 ELSE LET y == YatesLoop(arr, filled, nrows, nt, nrows - 1, rnd, 0)
                      IN  [ix_arr |-> y.ix_arr, ix_all |-> y.ix_all, is_repeated |-> rep]
        ELSE IF nt * 20 > nrows
        THEN LET cleared == ClearMarks(rep, nrows)
                 f == FloydLoop(arr, {i \in DOMAIN cleared : cleared[i]},
                                nrows, nt, nrows - nt, rnd, 0)
             IN  [ix_arr |-> f.ix_arr, ix_all |-> all,
                  is_repeated |-> [i \in DOMAIN cleared |-> i \in f.seen]]
        ELSE LET f == FloydLoop(arr, {}, nrows, nt, nrows - nt, rnd, 0)
             IN  [ix_arr |-> f.ix_arr, ix_all |-> all, is_repeated |-> rep]

(* the pairs (nrows, ntake) and the numbers the engine can give *)
ReproInputs ==
    {<<nr, nt>> \in (1 .. ReproRows) \X (0 .. ReproRows) : nt <= nr}
      \cup {<<nr, nt>> \in {BigRows} \X (1 .. SmallTake) : TRUE}

EngineNumbers(nr) ==
    IF nr = BigRows THEN ArrOf(SmallTake, {0, nr - 2, nr - 1})
    ELSE ArrOf(nr, 0 .. nr - 1)

(* what the vectors can hold on entry after earlier calls with the same nrows *)
StaleOutput(nt, nr) == {[i \in 0 .. nt - 1 |-> 0], StaleIxArr(nt, nr)}

InitRepro ==
    /\ prog = "sample_random_rows_unweighted"
    /\ pc = "start"
    /\ \E inp \in ReproInputs :
          /\ n = inp[1]
          /\ ntake = inp[2]
          /\ ix_arr \in StaleOutput(inp[2], inp[1])
          /\ ix_all \in StaleIxAll(inp[1])
          /\ is_repeated \in StaleIsRepeated(inp[1])
          /\ rnd_generator \in EngineNumbers(inp[1])
          /\ twin = [ix_arr |-> [i \in 0 .. inp[2] - 1 |-> 0], ix_all |-> <<>>,
                     is_repeated |-> <<>>,
                     entry |-> [ix_arr |-> ix_arr, ix_all |-> ix_all,
                                is_repeated |-> is_repeated]]
    /\ with_replacement \in BOOLEAN
    /\ weights = NULL
    /\ repeated_set = {}
    /\ btree_weights = <<>>
    /\ log2_n = 0
    /\ btree_offset = 0
    /\ loop_ix = 0
    /\ in_range = TRUE
    /\ tree_levels = 0
    /\ IdleShuffle
    /\ IdleDeliver
    /\ IdleRange
    /\ IdleDepth
    /\ IdlePredict
    /\ IdleComb
    /\ IdleLog2
    /\ IdleSignal
    /\ IdleSampler
    /\ IdleDivide

(* the call on the vectors as they are, and the same call, with the same
   numbers from the engine, on fresh vectors *)
ReproCall ==
    /\ prog = "sample_random_rows_unweighted" /\ pc = "start"
    /\ LET r == sample_random_rows(ix_arr, n, with_replacement, rnd_generator,
                                   ix_all, is_repeated)
           t == sample_random_rows(twin.ix_arr, n, with_replacement, rnd_generator,
                                   twin.ix_all, twin.is_repeated)
       IN  /\ ix_arr' = r.ix_arr
           /\ ix_all' = r.ix_all
           /\ is_repeated' = r.is_repeated
           /\ twin' = t @@ [entry |-> twin.entry]
    /\ pc' = "done"
    /\ UNCHANGED <<prog, deliverVars, rangeVars, depthVars, predictVars, combVars, log2Vars, signalVars, divideVars,
                   weights, n, tree_levels, shuffleVars, samplerVars, ntake,
                   repeated_set, btree_weights, log2_n, btree_offset, loop_ix,
                   in_range, with_replacement, rnd_generator>>

NextRepro == ReproCall

SpecRepro == InitRepro /\ [][NextRepro]_vars

(* ------------------------------------------------------------------ *)
(* ColumnSampler (utils.hpp:677-979)                                   *)
(* ------------------------------------------------------------------ *)
(* a member that no code has assigned yet; using its value is undefined *)
Uninit == 0 - 1

CsWeightDomain == 0 .. MaxW

has_weights == tree_weights # <<>>

get_remaining_cols == IF ~has_weights THEN curr_pos ELSE n - n_dropped

(* the columns sample_col(col, rng) can return in the current state *)
Available ==
    IF ~has_weights
    THEN {col_indices[i] : i \in 0 .. curr_pos - 1}
    ELSE {c \in 0 .. n - 1 : tree_weights[c + offset] > 0}

(* how the sampler has been used so far: "free" and "pass" while every
   drop_col was given the column the call before it returned and every
   full-pass sample_col(col) came after prepare_full_pass or shuffle_remainder
   with no random sample_col in between; "misuse" from the first call that
   breaks this *)
Usage(call, arg) ==
    IF obs.usage = "misuse" THEN "misuse"
    ELSE IF call = "sample_col" THEN "free"
    ELSE IF call \in {"prepare_full_pass", "shuffle_remainder"} THEN "pass"
    ELSE IF call = "sample_col_pass"
    THEN (IF obs.usage = "pass" THEN "pass" ELSE "misuse")
    ELSE IF call = "drop_col"
    THEN (IF obs.call \in {"sample_col", "sample_col_pass"} /\ obs.ok /\ obs.col = arg
          THEN obs.usage ELSE "misuse")
    ELSE obs.usage

(* what the observer keeps of a call: its name, argument and result; for a
   drop_col that repeats a well-used drop_col right before it, the state it
   started from; and, during a well-used full pass, the columns that were
   available when the pass was opened, the columns the pass has returned, and
   whether the last one had been returned before; and the number of
   initialize calls the object has seen *)
Observe(call, arg, ok, col) ==
    LET repeat == /\ call = "drop_col" /\ obs.call = "drop_col" /\ obs.arg = arg
                  /\ obs.usage # "misuse"
        opens == call \in {"prepare_full_pass", "shuffle_remainder"}
        in_pass == Usage(call, arg) = "pass"
        returned == call = "sample_col_pass" /\ ok
    IN  [call |-> call, arg |-> arg, ok |-> ok, col |-> col,
         usage |-> Usage(call, arg),
         repeat |-> repeat,
         rem_before |-> IF repeat THEN get_remaining_cols ELSE 0,
         avail_before |-> IF repeat THEN Available ELSE {},
         pass_avail |-> IF ~in_pass THEN {}
                        ELSE IF opens THEN Available ELSE obs.pass_avail,
         pass_seen |-> IF ~in_pass \/ opens THEN {}
                       ELSE IF returned THEN obs.pass_seen \cup {col}
                       ELSE obs.pass_seen,
         pass_dup |-> in_pass /\ returned /\ col \in obs.pass_seen,
         inits |-> obs.inits]

(* initialize(weights, n_cols) and initialize(n_cols) on a new object of at
   most max_cols columns *)
initialize(max_cols) ==
    /\ prog = "ColumnSampler"
    /\ pc = "ready"
    /\ n \in 2 .. max_cols
    /\ weights \in {NULL} \cup ArrOf(n, CsWeightDomain)
    /\ LET levels == log2ceil(n)
           tree == BuildTree(weights, n, levels)
       IN  IF weights = NULL \/ tree[0] <= 0
           THEN /\ tree_weights = <<>>
                /\ tree_levels = IF weights = NULL THEN Uninit ELSE levels
                /\ offset = IF weights = NULL THEN Uninit ELSE pow2(levels) - 1
                /\ curr_pos = n
                /\ col_indices = Iota(n)
           ELSE /\ tree_weights = tree
                /\ tree_levels = levels
                /\ offset = pow2(levels) - 1
                /\ curr_pos = Uninit
                /\ col_indices = <<>>
    /\ curr_col = Uninit
    /\ last_given = Uninit
    /\ n_dropped = 0
    /\ dropped = {}
    /\ obs = [call |-> "initialize", arg |-> 0, ok |-> TRUE, col |-> 0,
              usage |-> "free", repeat |-> FALSE, rem_before |-> 0,
              avail_before |-> {}, pass_avail |-> {}, pass_seen |-> {},
              pass_dup |-> FALSE, inits |-> 1]
    /\ in_range = TRUE
    /\ IdleShuffle
    /\ IdleDeliver
    /\ IdleRange
    /\ IdleDepth
    /\ IdleRepro
    /\ IdlePredict
    /\ IdleComb
    /\ IdleLog2
    /\ IdleSignal
    /\ IdleRows
    /\ IdleDivide

CsReady == prog = "ColumnSampler" /\ pc = "ready" /\ in_range

(* undefined behaviour: the model records it and lets the sampler stop *)
CsUndefined(call, arg) ==
    /\ in_range' = FALSE
    /\ obs' = Observe(call, arg, FALSE, 0)
    /\ UNCHANGED <<tree_weights, tree_levels, col_indices, curr_pos, curr_col,
                   last_given, offset, n_dropped, dropped>>

(* lines 741-748: m <= n_cols / 4, the results of the partial shuffle *)
RECURSIVE LeaveSmall(_, _, _, _)
LeaveSmall(cols, pos, m, ncols) ==
    IF pos = m THEN {cols}
    ELSE UNION { LeaveSmall(Swap(cols, pos + chosen, pos), pos + 1, m, ncols)
                 : chosen \in 0 .. ncols - pos - 1 }

(* lines 775-812: the weighted loop; each result is the new leaf weights and
   the number of columns kept, or the request to drop the weights *)
RECURSIVE LeaveWeighted(_, _, _, _, _)
LeaveWeighted(tw, curr_weights, col, m, levels) ==
    IF col = m THEN {[tw |-> tw, m |-> m, drop_weights |-> FALSE]}
    ELSE IF curr_weights[0] <= 0
    THEN IF col = 0
         THEN {[tw |-> tw, m |-> m, drop_weights |-> TRUE]}
         ELSE {[tw |-> tw, m |-> col, drop_weights |-> FALSE]}
    ELSE UNION { LeaveWeighted([tw EXCEPT ![curr_ix] = curr_weights[curr_ix]],
                               RemoveLeaf(curr_weights, curr_ix, levels),
                               col + 1, m, levels)
                 : curr_ix \in Descend(curr_weights, 0, 0, levels) }

ZeroTree(tree) == [ix \in DOMAIN tree |-> 0]

(* leave_m_cols(m, rng), lines 733-821; the tree builder calls it once, right
   after initialize *)
leave_m_cols(m) ==
    /\ CsReady
    /\ obs.call = "initialize"
    /\ IF m = 0 \/ m >= n
       THEN /\ obs' = Observe("leave_m_cols", m, TRUE, 0)
            /\ UNCHANGED <<tree_weights, tree_levels, col_indices, curr_pos, curr_col,
                           last_given, offset, n_dropped, in_range>>
       ELSE IF ~has_weights
       THEN IF m <= n \div 4
            THEN /\ \E cols \in LeaveSmall(col_indices, 0, m, n) : col_indices' = cols
                 /\ curr_pos' = m
                 /\ obs' = Observe("leave_m_cols", m, TRUE, 0)
                 /\ UNCHANGED <<tree_weights, tree_levels, curr_col, last_given,
                                offset, n_dropped, in_range>>
            ELSE IF 4 * m >= 3 * n
            THEN \* the first iteration swaps with col_indices[n_cols]
                 CsUndefined("leave_m_cols", m)
            ELSE /\ \E p \in Perms(n) :
                       col_indices' = [i \in 0 .. n - 1 |-> col_indices[p[i]]]
                 /\ curr_pos' = m
                 /\ obs' = Observe("leave_m_cols", m, TRUE, 0)
                 /\ UNCHANGED <<tree_weights, tree_levels, curr_col, last_given,
                                offset, n_dropped, in_range>>
       ELSE \E r \in LeaveWeighted(ZeroTree(tree_weights), tree_weights, 0, m,
                                   tree_levels) :
              IF r.drop_weights
              THEN /\ tree_weights' = <<>>
                   /\ curr_pos' = n
                   /\ col_indices' = Iota(n)
                   /\ n_dropped' = 0
                   /\ obs' = Observe("leave_m_cols", m, TRUE, 0)
                   /\ UNCHANGED <<tree_levels, curr_col, last_given, offset, in_range>>
              ELSE /\ tree_weights' = SumUp(r.tw, Cardinality(DOMAIN r.tw) - 1)
                   /\ n_dropped' = n - r.m
                   /\ obs' = Observe("leave_m_cols", m, TRUE, 0)
                   /\ UNCHANGED <<tree_levels, col_indices, curr_pos, curr_col,
                                  last_given, offset, in_range>>
    /\ UNCHANGED <<shuffleVars, rowsVars>>
    /\ UNCHANGED <<prog, deliverVars, rangeVars, depthVars, reproVars, predictVars, combVars, log2Vars, signalVars, divideVars, pc, weights, n, dropped>>

(* drop_col(col), lines 823-843 *)
drop_col(col) ==
    /\ CsReady
    /\ IF ~has_weights
       THEN IF last_given = Uninit \/ ~InBounds(col_indices, last_given)
               \/ ~InBounds(col_indices, curr_pos - 1)
            THEN CsUndefined("drop_col", col)
            ELSE /\ col_indices' = Swap(col_indices, last_given, curr_pos - 1)
                 /\ curr_pos' = curr_pos - 1
                 /\ IF curr_col = Uninit
                    THEN /\ in_range' = FALSE
                         /\ curr_col' = curr_col
                    ELSE /\ in_range' = in_range
                         /\ curr_col' = IF curr_col # 0 THEN curr_col - 1 ELSE curr_col
                 /\ obs' = Observe("drop_col", col, TRUE, 0)
                 /\ UNCHANGED <<tree_weights, tree_levels, last_given, offset, n_dropped>>
       ELSE /\ n_dropped < n
            /\ n_dropped' = n_dropped + 1
            /\ tree_weights' = RemoveLeaf(tree_weights, col + offset, tree_levels)
            /\ obs' = Observe("drop_col", col, TRUE, 0)
            /\ UNCHANGED <<tree_levels, col_indices, curr_pos, curr_col, last_given,
                           offset, in_range>>
    /\ dropped' = dropped \cup {col}
    /\ UNCHANGED <<shuffleVars, rowsVars>>
    /\ UNCHANGED <<prog, deliverVars, rangeVars, depthVars, reproVars, predictVars, combVars, log2Vars, signalVars, divideVars, pc, weights, n>>

(* the weighted part of prepare_full_pass, lines 851-858: the columns with a
   positive weight, in increasing order, written over the front of col_indices *)
RECURSIVE FillPositive(_, _, _)
FillPositive(cols, pos, col) ==
    IF col = n THEN [cols |-> cols, curr_pos |-> pos]
    ELSE IF tree_weights[col + offset] > 0
    THEN FillPositive([cols EXCEPT ![pos] = col], pos + 1, col + 1)
    ELSE FillPositive(cols, pos, col + 1)

(* col_indices.resize(n_cols) when it is shorter; new elements are 0 *)
Resized(cols) ==
    IF Cardinality(DOMAIN cols) < n
    THEN [i \in 0 .. n - 1 |-> IF i \in DOMAIN cols THEN cols[i] ELSE 0]
    ELSE cols

(* prepare_full_pass(), lines 845-860 *)
prepare_full_pass ==
    /\ CsReady
    /\ curr_col' = 0
    /\ IF has_weights
       THEN LET r == FillPositive(Resized(col_indices), 0, 0)
            IN  /\ col_indices' = r.cols
                /\ curr_pos' = r.curr_pos
       ELSE UNCHANGED <<col_indices, curr_pos>>
    /\ obs' = Observe("prepare_full_pass", 0, TRUE, 0)
    /\ UNCHANGED <<shuffleVars, rowsVars>>
    /\ UNCHANGED <<prog, deliverVars, rangeVars, depthVars, reproVars, predictVars, combVars, log2Vars, signalVars, divideVars, pc, weights, n, tree_weights, tree_levels, last_given, offset,
                   n_dropped, dropped, in_range>>

(* sample_col(col, rng), lines 862-906 *)
sample_col ==
    /\ CsReady
    /\ IF ~has_weights
       THEN IF curr_pos = 0
            THEN /\ obs' = Observe("sample_col", 0, FALSE, 0)
                 /\ UNCHANGED last_given
            ELSE \E given \in (IF curr_pos = 1 THEN {0} ELSE 0 .. curr_pos - 1) :
                    /\ last_given' = given
                    /\ obs' = Observe("sample_col", 0, TRUE, col_indices[given])
       ELSE /\ IF tree_weights[0] <= 0
               THEN obs' = Observe("sample_col", 0, FALSE, 0)
               ELSE \E curr_ix \in Descend(tree_weights, 0, 0, tree_levels) :
                       obs' = Observe("sample_col", 0, TRUE, curr_ix - offset)
            /\ UNCHANGED last_given
    /\ UNCHANGED <<shuffleVars, rowsVars>>
    /\ UNCHANGED <<prog, deliverVars, rangeVars, depthVars, reproVars, predictVars, combVars, log2Vars, signalVars, divideVars, pc, weights, n, tree_weights, tree_levels, col_indices, curr_pos,
                   curr_col, offset, n_dropped, dropped, in_range>>

(* sample_col(col), the full pass, lines 908-915 *)
sample_col_pass ==
    /\ CsReady
    /\ IF curr_pos = Uninit \/ curr_col = Uninit
       THEN CsUndefined("sample_col_pass", 0)
       ELSE IF curr_pos = curr_col \/ curr_pos = 0
       THEN /\ obs' = Observe("sample_col_pass", 0, FALSE, 0)
            /\ UNCHANGED <<tree_weights, tree_levels, col_indices, curr_pos, curr_col,
                           last_given, offset, n_dropped, dropped, in_range>>
       ELSE IF ~InBounds(col_indices, curr_col)
       THEN CsUndefined("sample_col_pass", 0)
       ELSE /\ last_given' = curr_col
            /\ curr_col' = curr_col + 1
            /\ obs' = Observe("sample_col_pass", 0, TRUE, col_indices[curr_col])
            /\ UNCHANGED <<tree_weights, tree_levels, col_indices, curr_pos, offset,
                           n_dropped, dropped, in_range>>
    /\ UNCHANGED <<shuffleVars, rowsVars>>
    /\ UNCHANGED <<prog, deliverVars, rangeVars, depthVars, reproVars, predictVars, combVars, log2Vars, signalVars, divideVars, pc, weights, n>>

(* lines 942-968: the draws of the weighted shuffle_remainder; each result is
   col_indices and curr_pos when the loop is left *)
RECURSIVE ShuffleWeighted(_, _, _)
ShuffleWeighted(cols, curr_weights, pos) ==
    IF pos = n \/ curr_weights[0] <= 0 THEN {[cols |-> cols, curr_pos |-> pos]}
    ELSE UNION { ShuffleWeighted([cols EXCEPT ![pos] = curr_ix - offset],
                                 RemoveLeaf(curr_weights, curr_ix, tree_levels),
                                 pos + 1)
                 : curr_ix \in Descend(curr_weights, 0, 0, tree_levels) }

(* std::shuffle of the first len elements *)
ShufflePrefix(cols, len) ==
    { [i \in DOMAIN cols |-> IF i < len THEN cols[p[i]] ELSE cols[i]] : p \in Perms(len) }

(* shuffle_remainder(rng), lines 917-970 *)
shuffle_remainder ==
    /\ CsReady
    /\ IF ~has_weights
       THEN /\ curr_col' = 0
            /\ \E cols \in ShufflePrefix(col_indices, curr_pos) : col_indices' = cols
            /\ UNCHANGED curr_pos
       ELSE IF tree_weights[0] <= 0
       THEN UNCHANGED <<curr_col, col_indices, curr_pos>>
       ELSE /\ curr_col' = 0
            /\ \E r \in ShuffleWeighted(Resized(col_indices), tree_weights, 0) :
                  /\ col_indices' = r.cols
                  /\ curr_pos' = r.curr_pos
    /\ obs' = Observe("shuffle_remainder", 0, TRUE, 0)
    /\ UNCHANGED <<shuffleVars, rowsVars>>
    /\ UNCHANGED <<prog, deliverVars, rangeVars, depthVars, reproVars, predictVars, combVars, log2Vars, signalVars, divideVars, pc, weights, n, tree_weights, tree_levels, last_given, offset,
                   n_dropped, dropped, in_range>>

InitSampler == initialize(MaxCols)

NextSampler ==
    \/ \E m \in 0 .. n : leave_m_cols(m)
    \/ \E col \in 0 .. n - 1 : drop_col(col)
    \/ prepare_full_pass
    \/ sample_col
    \/ sample_col_pass
    \/ shuffle_remainder

SpecSampler == InitSampler /\ [][NextSampler]_vars

(* the largest number of initialize calls on one sampler object *)
MaxInits == 2

(* initialize(weights, n_cols), lines 677-704, and initialize(n_cols), lines
   719-728, called on an object that has been initialized and used before.
   obs.arg keeps the n_cols argument and weights the weights argument.
   Line 687 resizes a tree of another size to tree_levels elements, and the
   leaf writes of line 693 then fall outside the vector. *)
initialize_again ==
    /\ CsReady
    /\ obs.inits < MaxInits
    /\ \E n_cols \in 2 .. MaxCols :
       \E w \in {NULL} \cup ArrOf(n_cols, CsWeightDomain) :
          LET levels == log2ceil(n_cols)
              tree == BuildTree(w, n_cols, levels)
              size == Cardinality(DOMAIN tree_weights)
          IN  /\ weights' = w
              /\ IF w = NULL
                 THEN /\ IF ~has_weights
                         THEN /\ n' = n_cols
                              /\ curr_pos' = n_cols
                              /\ col_indices' = Iota(n_cols)
                         ELSE UNCHANGED <<n, curr_pos, col_indices>>
                      /\ UNCHANGED <<tree_weights, tree_levels, offset, n_dropped,
                                     in_range>>
                 ELSE /\ n' = n_cols
                      /\ tree_levels' = levels
                      /\ offset' = pow2(levels) - 1
                      /\ IF size # 0 /\ size # pow2(levels + 1)
                         THEN /\ tree_weights' = [ix \in 0 .. levels - 1 |-> 0]
                              /\ in_range' = FALSE
                              /\ UNCHANGED <<curr_pos, col_indices, n_dropped>>
                         ELSE /\ IF tree[0] <= 0
                                 THEN /\ tree_weights' = <<>>
                                      /\ curr_pos' = n_cols
                                      /\ col_indices' = Iota(n_cols)
                                 ELSE /\ tree_weights' = tree
                                      /\ UNCHANGED <<curr_pos, col_indices>>
                              /\ n_dropped' = 0
                              /\ UNCHANGED in_range
              /\ obs' = [call |-> "initialize", arg |-> n_cols, ok |-> TRUE,
                         col |-> 0, usage |-> "free", repeat |-> FALSE,
                         rem_before |-> 0, avail_before |-> {},
                         pass_avail |-> {}, pass_seen |-> {},
                         pass_dup |-> FALSE, inits |-> obs.inits + 1]
    /\ dropped' = {}
    /\ UNCHANGED <<curr_col, last_given>>
    /\ UNCHANGED <<shuffleVars, rowsVars>>
    /\ UNCHANGED <<prog, deliverVars, rangeVars, depthVars, reproVars, predictVars, combVars, log2Vars, signalVars, divideVars, pc>>

(* one sampler object that is initialized, used and initialized again *)
InitAgain == initialize(MaxCols)

(* between two initialize calls the object is restricted, sampled at random
   and has the sampled column dropped; after the last one it is left alone *)
NextAgain ==
    \/ /\ obs.inits < MaxInits
       /\ \/ \E m \in 0 .. n : leave_m_cols(m)
          \/ obs.call = "sample_col" /\ obs.ok /\ drop_col(obs.col)
          \/ sample_col
    \/ initialize_again

SpecAgain == InitAgain /\ [][NextAgain]_vars

(* the sampler of a tree with a restricted column set: initialize, then
   leave_m_cols, then random sampling *)
InitRestrict == initialize(RestrictCols)

NextRestrict ==
    \/ \E m \in 0 .. n : leave_m_cols(m)
    \/ sample_col

SpecRestrict == InitRestrict /\ [][NextRestrict]_vars

(* every routine that builds or changes a weight tree *)
InitTree == InitShuffle \/ InitRows \/ InitSampler

NextTree ==
    \/ ShuffleBuild
    \/ ShuffleDraw
    \/ RowsBuild
    \/ RowsWeightedDraw
    \/ \E m \in 0 .. n : leave_m_cols(m)
    \/ \E col \in 0 .. n - 1 : drop_col(col)

SpecTree == InitTree /\ [][NextTree]_vars

(* ------------------------------------------------------------------ *)
(* divide_subset_split (utils.hpp:1001-1607)                           *)
(* ------------------------------------------------------------------ *)
DivRows == 4

(* the not-a-number value of a real_t, kept apart from every number used *)
NaN == 99

isnan(v) == v = NaN

(* v <= split_point on doubles: false whenever v is NaN *)
Leq(v, point) == ~isnan(v) /\ v <= point

NumericValues == {-2, 0, 2, NaN}

SplitPoints == {-1, 0, 1}

(* category codes: negative is missing, 2 is a category not seen when fitting *)
CategValues == {-1, 0, 1, 2}

MissingActions == {"Fail", "Impute"}

(* a pass that writes the last row over the first position and swaps nothing *)
MovePassOverwrite(a, first, row, last, moved) ==
    [a |-> [a EXCEPT ![first] = a[last]], st |-> first]

(* the loop "for (row = st; row <= end; row++) if (...) { swap(ix_arr[st],
   ix_arr[row]); st++; }" for a condition that holds of the rows in moved *)
RECURSIVE MovePass(_, _, _, _, _)
MovePass(a, first, row, last, moved) ==
    IF row > last THEN [a |-> a, st |-> first]
    ELSE IF a[row] \in moved
    THEN MovePass(Swap(a, first, row), first + 1, row + 1, last, moved)
    ELSE MovePass(a, first, row + 1, last, moved)

(* the rows of the slice, as the set the conditions are evaluated on *)
SliceRows(a, first, last) == {a[i] : i \in first .. last}

(* the outputs as the caller passed them in *)
NoOutputs == [st_NA |-> st_NA, end_NA |-> end_NA, split_ix |-> split_ix]

(* a numeric pass with the NaN pass left out *)
DenseNumericOnePass(a, col, first, last, point, action) ==
    LET p == MovePass(a, first, first, last,
                      {r \in SliceRows(a, first, last) : Leq(col[r], point)})
    IN  IF action = "Fail"
        THEN [NoOutputs EXCEPT !.split_ix = p.st] @@ [ix_arr |-> p.a]
        ELSE [NoOutputs EXCEPT !.st_NA = p.st, !.end_NA = p.st] @@ [ix_arr |-> p.a]

(* dense numeric columns, lines 1001-1051 *)
DenseNumeric(a, col, first, last, point, action) ==
    IF action = "Fail"
    THEN LET p == MovePass(a, first, first, last,
                           {r \in SliceRows(a, first, last) : Leq(col[r], point)})
         IN  [NoOutputs EXCEPT !.split_ix = p.st] @@ [ix_arr |-> p.a]
    ELSE LET p == MovePass(a, first, first, last,
                           {r \in SliceRows(a, first, last) :
                               ~isnan(col[r]) /\ Leq(col[r], point)})
             q == MovePass(p.a, p.st, p.st, last,
                           {r \in SliceRows(a, first, last) : isnan(col[r])})
         IN  [NoOutputs EXCEPT !.st_NA = p.st, !.end_NA = q.st] @@ [ix_arr |-> q.a]

(* categorical columns split by subset, lines 1318-1367; reading
   split_categ[-1] gives whatever precedes the array *)
FlagOf(categ, code, before) == IF code \in DOMAIN categ THEN categ[code] ELSE before

CategSubset(a, col, first, last, categ, before, action) ==
    IF action = "Fail"
    THEN LET p == MovePass(a, first, first, last,
                           {r \in SliceRows(a, first, last) :
                               FlagOf(categ, col[r], before) = 1})
         IN  [NoOutputs EXCEPT !.split_ix = p.st] @@ [ix_arr |-> p.a]
    ELSE LET p == MovePass(a, first, first, last,
                           {r \in SliceRows(a, first, last) :
                               col[r] >= 0 /\ FlagOf(categ, col[r], before) = 1})
             q == MovePass(p.a, p.st, p.st, last,
                           {r \in SliceRows(a, first, last) : col[r] < 0})
         IN  [NoOutputs EXCEPT !.st_NA = p.st, !.end_NA = q.st] @@ [ix_arr |-> q.a]

(* a single-category split that sends every code up to the category left *)
CategSingleUpTo(a, col, first, last, categ, action) ==
    LET p == MovePass(a, first, first, last,
                      {r \in SliceRows(a, first, last) : col[r] >= 0 /\ col[r] <= categ})
    IN  IF action = "Fail"
        THEN [NoOutputs EXCEPT !.split_ix = p.st] @@ [ix_arr |-> p.a]
        ELSE LET q == MovePass(p.a, p.st, p.st, last,
                               {r \in SliceRows(a, first, last) : col[r] < 0})
             IN  [NoOutputs EXCEPT !.st_NA = p.st, !.end_NA = q.st] @@ [ix_arr |-> q.a]

(* categorical columns split on a single category, lines 1458-1507 *)
CategSingle(a, col, first, last, categ, action) ==
    LET p == MovePass(a, first, first, last,
                      {r \in SliceRows(a, first, last) : col[r] = categ})
    IN  IF action = "Fail"
        THEN [NoOutputs EXCEPT !.split_ix = p.st] @@ [ix_arr |-> p.a]
        ELSE LET q == MovePass(p.a, p.st, p.st, last,
                               {r \in SliceRows(a, first, last) : col[r] < 0})
             IN  [NoOutputs EXCEPT !.st_NA = p.st, !.end_NA = q.st] @@ [ix_arr |-> q.a]

(* categorical columns with two categories only, lines 1510-1607 *)
CategTwo(a, col, first, last, action, smallest_to_left) ==
    LET p == MovePass(a, first, first, last,
                      {r \in SliceRows(a, first, last) :
                          IF smallest_to_left THEN col[r] = 0 \/ col[r] > 1
                          ELSE col[r] = 0})
    IN  IF action = "Fail"
        THEN [NoOutputs EXCEPT !.split_ix = p.st] @@ [ix_arr |-> p.a]
        ELSE LET q == MovePass(p.a, p.st, p.st, last,
                               {r \in SliceRows(a, first, last) : col[r] < 0})
             IN  [NoOutputs EXCEPT !.st_NA = p.st, !.end_NA = q.st] @@ [ix_arr |-> q.a]

(* ---- sparse numeric columns, lines 1054-1315 ---- *)
(* the column's entries are Xc_ind[st_col .. end_col] *)
st_col == 0

(* Xc_ind[k]; outside the column's entries it is the neighbouring column's
   data or whatever lies around the array *)
IndAt(c, k) ==
    IF k \in DOMAIN c.Xc_ind THEN c.Xc_ind[k]
    ELSE IF k < st_col THEN c.stray[1] ELSE c.stray[2]

(* std::lower_bound on the sorted range f[lo .. hi - 1] *)
LowerBound(f, lo, hi, v) ==
    IF \E k \in lo .. hi - 1 : f[k] >= v
    THEN CHOOSE k \in lo .. hi - 1 : f[k] >= v /\ \A j \in lo .. k - 1 : f[j] < v
    ELSE hi

(* std::sort(ix_arr + lo, ix_arr + hi + 1) *)
SortRange(a, lo, hi) ==
    LET vals == {a[i] : i \in lo .. hi}
    IN  [i \in DOMAIN a |->
           IF i \in lo .. hi
           THEN CHOOSE v \in vals : Cardinality({u \in vals : u < v}) = i - lo
           ELSE a[i]]

(* a loop that leaves every remaining row where it is *)
MoveRestNothing(a, first, r, last) == [a |-> a, st |-> first]

(* for (r = ...; r <= ix_arr + end; r++) { swap(ix_arr[st], *r); st++; } *)
RECURSIVE MoveRest(_, _, _, _)
MoveRest(a, first, r, last) ==
    IF r > last THEN [a |-> a, st |-> first]
    ELSE MoveRest(Swap(a, first, r), first + 1, r + 1, last)

SwapLeft(s) == [s EXCEPT !.a = Swap(s.a, s.st, s.row), !.st = s.st + 1]

Rest(s, from, last) ==
    LET m == MoveRest(s.a, s.st, from, last)
    IN  [s EXCEPT !.a = m.a, !.st = m.st]

(* while (row <= ix_arr + end && Xc_ind[curr_pos] > *row) { swap; st++; row++; } *)
RECURSIVE WhileBelow(_, _)
WhileBelow(c, s) ==
    IF s.row <= c.end /\ IndAt(c, s.curr_pos) > s.a[s.row]
    THEN WhileBelow(c, [SwapLeft(s) EXCEPT !.row = s.row + 1])
    ELSE s

(* curr_pos = lower_bound(Xc_ind + curr_pos + 1, Xc_ind + end_col + 1, v) - Xc_ind *)
NextPos(c, s, v) == LowerBound(c.Xc_ind, s.curr_pos + 1, c.end_col + 1, v)

(* lines 1093-1148: Fail, zeros go left *)
RECURSIVE FailMoveZeros(_, _)
FailMoveZeros(c, s) ==
    IF s.row = c.end + 1 THEN s
    ELSE IF s.curr_pos >= c.end_col + 1 THEN Rest(s, s.row, c.end)
    ELSE IF IndAt(c, s.curr_pos) = s.a[s.row]
    THEN LET s1 == IF Leq(c.Xc[s.curr_pos], c.split_point) THEN SwapLeft(s) ELSE s
             s2 == IF s.curr_pos = c.end_col /\ s.row < c.end
                   THEN Rest(s1, s.row + 1, c.end) ELSE s1
         IN  IF s.row = c.end \/ s.curr_pos = c.end_col THEN s2
             ELSE FailMoveZeros(c, [s2 EXCEPT !.row = s.row + 1,
                                              !.curr_pos = NextPos(c, s, s2.a[s.row + 1])])
    ELSE IF IndAt(c, s.curr_pos) > s.a[s.row]
    THEN FailMoveZeros(c, WhileBelow(c, s))
    ELSE FailMoveZeros(c, [s EXCEPT !.curr_pos = NextPos(c, s, s.a[s.row])])

(* lines 1153-1177: Fail, zeros stay right *)
RECURSIVE FailKeepZeros(_, _)
FailKeepZeros(c, s) ==
    IF ~(s.row # c.end + 1 /\ s.curr_pos # c.end_col + 1
         /\ c.ind_end_col >= s.a[s.row])
    THEN s
    ELSE IF IndAt(c, s.curr_pos) = s.a[s.row]
    THEN LET s1 == IF Leq(c.Xc[s.curr_pos], c.split_point) THEN SwapLeft(s) ELSE s
         IN  IF s.row = c.end \/ s.curr_pos = c.end_col THEN s1
             ELSE FailKeepZeros(c, [s1 EXCEPT !.row = s.row + 1,
                                              !.curr_pos = NextPos(c, s, s1.a[s.row + 1])])
    ELSE IF IndAt(c, s.curr_pos) > s.a[s.row]
    THEN FailKeepZeros(c, [s EXCEPT !.row = LowerBound(s.a, s.row + 1, c.end + 1,
                                                       IndAt(c, s.curr_pos))])
    ELSE FailKeepZeros(c, [s EXCEPT !.curr_pos = NextPos(c, s, s.a[s.row])])

(* lines 1189-1246: missing values looked at, zeros go left *)
RECURSIVE NAsMoveZeros(_, _)
NAsMoveZeros(c, s) ==
    IF s.row = c.end + 1 THEN s
    ELSE IF s.curr_pos >= c.end_col + 1 THEN Rest(s, s.row, c.end)
    ELSE IF IndAt(c, s.curr_pos) = s.a[s.row]
    THEN LET s1 == IF isnan(c.Xc[s.curr_pos]) THEN [s EXCEPT !.has_NAs = TRUE]
                   ELSE IF Leq(c.Xc[s.curr_pos], c.split_point) THEN SwapLeft(s)
                   ELSE s
             s2 == IF s.curr_pos = c.end_col /\ s.row < c.end
                   THEN Rest(s1, s.row + 1, c.end) ELSE s1
         IN  IF s.row = c.end \/ s.curr_pos = c.end_col THEN s2
             ELSE NAsMoveZeros(c, [s2 EXCEPT !.row = s.row + 1,
                                             !.curr_pos = NextPos(c, s, s2.a[s.row + 1])])
    ELSE IF IndAt(c, s.curr_pos) > s.a[s.row]
    THEN NAsMoveZeros(c, WhileBelow(c, s))
    ELSE NAsMoveZeros(c, [s EXCEPT !.curr_pos = NextPos(c, s, s.a[s.row])])

(* lines 1251-1276: missing values looked at, zeros stay right *)
RECURSIVE NAsKeepZeros(_, _)
NAsKeepZeros(c, s) ==
    IF ~(s.row # c.end + 1 /\ s.curr_pos # c.end_col + 1
         /\ c.ind_end_col >= s.a[s.row])
    THEN s
    ELSE IF IndAt(c, s.curr_pos) = s.a[s.row]
    THEN LET s0 == IF isnan(c.Xc[s.curr_pos]) THEN [s EXCEPT !.has_NAs = TRUE] ELSE s
             s1 == IF ~isnan(c.Xc[s.curr_pos]) /\ Leq(c.Xc[s.curr_pos], c.split_point)
                   THEN SwapLeft(s0) ELSE s0
         IN  IF s.row = c.end \/ s.curr_pos = c.end_col THEN s1
             ELSE NAsKeepZeros(c, [s1 EXCEPT !.row = s.row + 1,
                                             !.curr_pos = NextPos(c, s, s1.a[s.row + 1])])
    ELSE IF IndAt(c, s.curr_pos) > s.a[s.row]
    THEN NAsKeepZeros(c, [s EXCEPT !.row = LowerBound(s.a, s.row + 1, c.end + 1,
                                                      IndAt(c, s.curr_pos))])
    ELSE NAsKeepZeros(c, [s EXCEPT !.curr_pos = NextPos(c, s, s.a[s.row])])

(* lines 1285-1309: the rows with a missing value, after the sort *)
RECURSIVE NAsScan(_, _)
NAsScan(c, s) ==
    IF ~(s.row # c.end + 1 /\ s.curr_pos # c.end_col + 1
         /\ c.ind_end_col >= s.a[s.row])
    THEN s
    ELSE IF IndAt(c, s.curr_pos) = s.a[s.row]
    THEN LET s1 == IF isnan(c.Xc[s.curr_pos]) THEN SwapLeft(s) ELSE s
         IN  IF s.row = c.end \/ s.curr_pos = c.end_col THEN s1
             ELSE NAsScan(c, [s1 EXCEPT !.row = s.row + 1,
                                        !.curr_pos = NextPos(c, s, s1.a[s.row + 1])])
    ELSE IF IndAt(c, s.curr_pos) > s.a[s.row]
    THEN NAsScan(c, [s EXCEPT !.row = LowerBound(s.a, s.row + 1, c.end + 1,
                                                 IndAt(c, s.curr_pos))])
    ELSE NAsScan(c, [s EXCEPT !.curr_pos = NextPos(c, s, s.a[s.row])])

(* the whole function, lines 1054-1315 *)
SparseNumeric(a, first, last, vals, inds, around, point, action) ==
    LET empty == Cardinality(DOMAIN inds) = 0
        early == IF ~empty THEN NoOutputs
                 ELSE IF action = "Fail"
                 THEN [NoOutputs EXCEPT !.split_ix = IF 0 <= point THEN last + 1 ELSE first]
                 ELSE [NoOutputs EXCEPT !.st_NA = IF 0 <= point THEN last + 1 ELSE first,
                                        !.end_NA = IF 0 <= point THEN last + 1 ELSE first]
        end_col == st_col + Cardinality(DOMAIN inds) - 1
        c0 == [Xc |-> vals, Xc_ind |-> inds, stray |-> around, end |-> last,
               split_point |-> point, end_col |-> end_col, ind_end_col |-> 0]
        c == [c0 EXCEPT !.ind_end_col = IndAt(c0, end_col)]
        move_zeros == 0 <= point
        ptr_st == LowerBound(a, first, last + 1, IndAt(c, st_col))
        st1 == IF move_zeros /\ ptr_st > first THEN ptr_st ELSE first
        s0 == [a |-> a, st |-> st1, row |-> ptr_st, curr_pos |-> st_col,
               has_NAs |-> FALSE]
    IN  IF action = "Fail"
        THEN LET s == IF move_zeros THEN FailMoveZeros(c, s0) ELSE FailKeepZeros(c, s0)
             IN  [early EXCEPT !.split_ix = s.st] @@ [ix_arr |-> s.a]
        ELSE LET s == IF move_zeros THEN NAsMoveZeros(c, s0) ELSE NAsKeepZeros(c, s0)
                 sorted == SortRange(s.a, s.st, last)
                 t == IF s.has_NAs
                      THEN NAsScan(c, [s EXCEPT !.a = sorted, !.row = s.st,
                                                !.curr_pos = st_col])
                      ELSE s
             IN  [early EXCEPT !.st_NA = s.st, !.end_NA = t.st] @@ [ix_arr |-> t.a]

(* ---- the calls ---- *)
(* the CSC column of a dense column: the rows with a nonzero value, ascending *)
SparseInd(col) ==
    LET nz == {r \in DOMAIN col : col[r] # 0}
    IN  [k \in 0 .. Cardinality(nz) - 1 |->
           CHOOSE r \in nz : Cardinality({u \in nz : u < r}) = k]

SparseVal(col) == [k \in DOMAIN SparseInd(col) |-> col[SparseInd(col)[k]]]

InitDivide ==
    /\ prog = "divide_subset_split"
    /\ n = DivRows
    /\ ix_arr \in Perms(n)
    /\ ix_before = ix_arr
    /\ st \in 0 .. n - 1
    /\ end \in st .. n - 1
    /\ \/ /\ pc = "numeric"
          /\ x \in ArrOf(n, NumericValues)
          /\ Xc_ind = SparseInd(x)
          /\ Xc = SparseVal(x)
          /\ IF Xc_ind = <<>>
             THEN stray \in (0 .. n) \X (0 .. n)
             ELSE stray = <<0, 0>>
       \/ /\ pc = "categorical"
          \* the dense variants read x only at the rows of the slice
          /\ x \in ArrOf(n, CategValues)
          /\ \A r \in 0 .. n - 1 : r \notin SliceRows(ix_arr, st, end) => x[r] = 0
          /\ Xc_ind = <<>>
          /\ Xc = <<>>
          /\ stray = <<0, 0>>
    /\ split_point = 0
    /\ split_categ = <<>>
    /\ missing_action = "Fail"
    /\ st_NA = Uninit
    /\ end_NA = Uninit
    /\ split_ix = Uninit
    /\ weights = NULL
    /\ tree_levels = 0
    /\ in_range = TRUE
    /\ ntake = 0 /\ ix_all = <<>> /\ is_repeated = <<>> /\ repeated_set = {}
    /\ btree_weights = <<>> /\ log2_n = 0 /\ btree_offset = 0 /\ loop_ix = 0
    /\ IdleShuffle
    /\ IdleDeliver
    /\ IdleRange
    /\ IdleDepth
    /\ IdleRepro
    /\ IdlePredict
    /\ IdleComb
    /\ IdleLog2
    /\ IdleSignal
    /\ IdleSampler

(* what a call leaves behind: the array and the outputs it assigned *)
Returns(r, variant) ==
    /\ ix_arr' = r.ix_arr
    /\ st_NA' = r.st_NA
    /\ end_NA' = r.end_NA
    /\ split_ix' = r.split_ix
    /\ pc' = variant
    /\ UNCHANGED <<prog, deliverVars, rangeVars, depthVars, reproVars, predictVars, combVars, log2Vars, signalVars, weights, n, tree_levels, in_range, shuffleVars, samplerVars,
                   ntake, ix_all, is_repeated, repeated_set, btree_weights, log2_n,
                   btree_offset, loop_ix, x, st, end, Xc, Xc_ind, stray, ix_before>>

DivideDense ==
    /\ prog = "divide_subset_split" /\ pc = "numeric"
    /\ \E point \in SplitPoints, action \in MissingActions :
          /\ split_point' = point
          /\ missing_action' = action
          /\ Returns(DenseNumeric(ix_arr, x, st, end, point, action), "dense")
    /\ UNCHANGED split_categ

(* the callers pass a slice sorted ascending to the sparse variant *)
DivideSparse ==
    /\ prog = "divide_subset_split" /\ pc = "numeric"
    /\ \A i \in st .. end - 1 : ix_arr[i] < ix_arr[i + 1]
    /\ \E point \in SplitPoints, action \in MissingActions :
          /\ split_point' = point
          /\ missing_action' = action
          /\ Returns(SparseNumeric(ix_arr, st, end, Xc, Xc_ind, stray, point, action),
                     "sparse")
    /\ UNCHANGED split_categ

DivideCategSubset ==
    /\ prog = "divide_subset_split" /\ pc = "categorical"
    /\ \E categ \in ArrOf(3, {0, 1}), before \in {0, 1}, action \in MissingActions :
          /\ split_categ' = categ
          /\ missing_action' = action
          /\ Returns(CategSubset(ix_arr, x, st, end, categ, before, action), "subset")
    /\ UNCHANGED split_point

DivideCategSingle ==
    /\ prog = "divide_subset_split" /\ pc = "categorical"
    /\ \E categ \in 0 .. 2, action \in MissingActions :
          /\ split_categ' = categ
          /\ missing_action' = action
          /\ Returns(CategSingle(ix_arr, x, st, end, categ, action), "single")
    /\ UNCHANGED split_point

DivideCategTwo ==
    /\ prog = "divide_subset_split" /\ pc = "categorical"
    /\ \E smallest_to_left \in BOOLEAN, action \in MissingActions :
          /\ missing_action' = action
          /\ Returns(CategTwo(ix_arr, x, st, end, action, smallest_to_left), "two")
    /\ UNCHANGED <<split_point, split_categ>>

NextDivide ==
    \/ DivideDense
    \/ DivideSparse
    \/ DivideCategSubset
    \/ DivideCategSingle
    \/ DivideCategTwo

SpecDivide == InitDivide /\ [][NextDivide]_vars

(* ---- the sparse variant on a column without stored entries ---- *)
(* the positions of Xc_ind read on every call: Xc_ind[end_col] at line 1080
   and Xc_ind[st_col] at line 1083, with end_col = st_col + nnz - 1 *)
ReadOnEntry(inds) == {st_col + Cardinality(DOMAIN inds) - 1, st_col}

InitEmpty ==
    /\ prog = "sparse_empty_column"
    /\ pc = "numeric"
    /\ n = DivRows
    /\ ix_arr \in Perms(n)
    /\ ix_before = ix_arr
    /\ st \in 0 .. n - 1
    /\ end \in st .. n - 1
    /\ \A i \in st .. end - 1 : ix_arr[i] < ix_arr[i + 1]
    /\ x = [r \in 0 .. n - 1 |-> 0]
    /\ Xc_ind = SparseInd(x)
    /\ Xc = SparseVal(x)
    \* what lies before and after the column's place in Xc_ind: entries of
    \* the neighbouring columns, or anything when the column is the first or
    \* the last of the matrix
    /\ stray \in (0 .. n) \X (0 .. n)
    /\ split_point = 0
    /\ split_categ = <<>>
    /\ missing_action = "Fail"
    /\ st_NA = Uninit
    /\ end_NA = Uninit
    /\ split_ix = Uninit
    /\ weights = NULL
    /\ tree_levels = 0
    /\ in_range = TRUE
    /\ ntake = 0 /\ ix_all = <<>> /\ is_repeated = <<>> /\ repeated_set = {}
    /\ btree_weights = <<>> /\ log2_n = 0 /\ btree_offset = 0 /\ loop_ix = 0
    /\ IdleShuffle
    /\ IdleDeliver
    /\ IdleRange
    /\ IdleDepth
    /\ IdleRepro
    /\ IdlePredict
    /\ IdleComb
    /\ IdleLog2
    /\ IdleSignal
    /\ IdleSampler

(* the call; in_range tells whether every read of Xc_ind was of an entry of
   the column *)
DivideSparseEmpty ==
    /\ prog = "sparse_empty_column" /\ pc = "numeric"
    /\ \E point \in SplitPoints, action \in MissingActions :
          /\ split_point' = point
          /\ missing_action' = action
          /\ LET r == SparseNumeric(ix_arr, st, end, Xc, Xc_ind, stray, point, action)
             IN  /\ ix_arr' = r.ix_arr
                 /\ st_NA' = r.st_NA
                 /\ end_NA' = r.end_NA
                 /\ split_ix' = r.split_ix
    /\ in_range' = (ReadOnEntry(Xc_ind) \subseteq DOMAIN Xc_ind)
    /\ pc' = "sparse"
    /\ UNCHANGED <<prog, deliverVars, rangeVars, depthVars, reproVars, predictVars, combVars,
                   log2Vars, signalVars, weights, n, tree_levels, shuffleVars,
                   samplerVars, ntake, ix_all, is_repeated, repeated_set,
                   btree_weights, log2_n, btree_offset, loop_ix, x, st, end,
                   split_categ, Xc, Xc_ind, stray, ix_before>>

NextEmpty == DivideSparseEmpty

SpecEmpty == InitEmpty /\ [][NextEmpty]_vars

(* ------------------------------------------------------------------ *)
(* Categorical split by subset at prediction time (utils.hpp:1370-1455) *)
(* ------------------------------------------------------------------ *)
PredRows == 3

NewCategActions == {"Weighted", "Smallest", "Random"}

(* ncat; the table has one entry per category known when fitting: 1 left,
   0 right, -1 not seen in the node that was split *)
PredCategs == 2 .. 3

(* the rows at which the routine evaluates split_categ[x[row]]: every row
   of the slice when the first branch runs, since there the lookup is the
   first operand of ||, and the rows with x >= 0 in the other branch, where
   it is guarded by x >= 0 only *)
TableReads(a, col, first, last, action, new_action) ==
    IF action = "Fail" /\ new_action # "Weighted"
    THEN {col[r] : r \in SliceRows(a, first, last)}
    ELSE {col[r] : r \in {q \in SliceRows(a, first, last) : col[q] >= 0}}

(* lines 1370-1455 *)
CategSubsetPredict(a, col, first, last, categ, k, before, action, new_action, to_left) ==
    LET rows == SliceRows(a, first, last)
    IN  IF action = "Fail" /\ new_action # "Weighted"
        THEN LET p == IF new_action = "Smallest" /\ to_left
                      THEN MovePass(a, first, first, last,
                                    {r \in rows : \/ FlagOf(categ, col[r], before) = 1
                                                  \/ col[r] >= k})
                      ELSE MovePass(a, first, first, last,
                                    {r \in rows : FlagOf(categ, col[r], before) = 1})
             IN  [NoOutputs EXCEPT !.split_ix = p.st] @@ [ix_arr |-> p.a]
        ELSE LET p == MovePass(a, first, first, last,
                               {r \in rows : /\ col[r] >= 0
                                             /\ FlagOf(categ, col[r], before) = 1})
                 q == IF new_action = "Weighted"
                      THEN MovePass(p.a, p.st, p.st, last,
                                    {r \in rows : \/ col[r] < 0
                                                  \/ FlagOf(categ, col[r], before) = -1})
                      ELSE MovePass(p.a, p.st, p.st, last,
                                    {r \in rows : col[r] < 0})
             IN  [NoOutputs EXCEPT !.st_NA = p.st, !.end_NA = q.st] @@ [ix_arr |-> q.a]

InitPredict ==
    /\ prog = "predict_split"
    /\ pc = "categorical"
    /\ n = PredRows
    /\ ix_arr \in Perms(n)
    /\ ix_before = ix_arr
    /\ st \in 0 .. n - 1
    /\ end \in st .. n - 1
    /\ x \in ArrOf(n, CategValues)
    /\ \A r \in 0 .. n - 1 : r \notin SliceRows(ix_arr, st, end) => x[r] = 0
    /\ Xc_ind = <<>> /\ Xc = <<>> /\ stray = <<0, 0>>
    /\ split_point = 0
    /\ split_categ = <<>>
    /\ missing_action = "Fail"
    /\ st_NA = Uninit
    /\ end_NA = Uninit
    /\ split_ix = Uninit
    /\ weights = NULL
    /\ tree_levels = 0
    /\ in_range = TRUE
    /\ ntake = 0 /\ ix_all = <<>> /\ is_repeated = <<>> /\ repeated_set = {}
    /\ btree_weights = <<>> /\ log2_n = 0 /\ btree_offset = 0 /\ loop_ix = 0
    /\ IdleShuffle
    /\ IdleDeliver
    /\ IdleRange
    /\ IdleDepth
    /\ IdleRepro
    /\ IdlePredict
    /\ IdleComb
    /\ IdleLog2
    /\ IdleSignal
    /\ IdleSampler

(* a call of the routine; with MissingAction Fail the data holds no missing
   value, and what an out-of-range lookup finds is any char *)
DividePredict ==
    /\ prog = "predict_split" /\ pc = "categorical"
    /\ \E k \in PredCategs, before \in {-1, 0, 1}, action \in MissingActions,
          new_action \in NewCategActions, to_left \in BOOLEAN :
       \E categ \in ArrOf(k, {-1, 0, 1}) :
          /\ action = "Fail" => \A r \in SliceRows(ix_arr, st, end) : x[r] >= 0
          /\ split_categ' = categ
          /\ ncat' = k
          /\ missing_action' = action
          /\ new_cat_action' = new_action
          /\ move_new_to_left' = to_left
          /\ in_range' = (TableReads(ix_arr, x, st, end, action, new_action)
                              \subseteq 0 .. k - 1)
          /\ LET r == CategSubsetPredict(ix_arr, x, st, end, categ, k,
                                         before, action, new_action, to_left)
             IN  /\ ix_arr' = r.ix_arr
                 /\ st_NA' = r.st_NA
                 /\ end_NA' = r.end_NA
                 /\ split_ix' = r.split_ix
          /\ pc' = "predicted"
    /\ UNCHANGED <<prog, deliverVars, rangeVars, depthVars, reproVars, combVars, log2Vars, signalVars, weights, n, tree_levels,
                   shuffleVars, samplerVars, ntake, ix_all, is_repeated, repeated_set,
                   btree_weights, log2_n, btree_offset, loop_ix, x, st, end,
                   split_point, Xc, Xc_ind, stray, ix_before>>

NextPredict == DividePredict

SpecPredict == InitPredict /\ [][NextPredict]_vars

(* ------------------------------------------------------------------ *)
(* expected_separation_depth (utils.hpp:190-263)                       *)
(* ------------------------------------------------------------------ *)
(* a double is held as a non-negative fixed-point number of four groups of
   three decimal digits after the point, <<integer part, d1, d2, d3, d4>>,
   truncated; the products and remainders of the operations below stay
   under 2^31 for factors up to THRESHOLD_EXACT_S *)
FxBase == 1000

FxInt(k) == <<k, 0, 0, 0, 0>>

FxAdd(p, q) ==
    LET t5 == p[5] + q[5]
        t4 == p[4] + q[4] + (t5 \div FxBase)
        t3 == p[3] + q[3] + (t4 \div FxBase)
        t2 == p[2] + q[2] + (t3 \div FxBase)
    IN  <<p[1] + q[1] + (t2 \div FxBase), t2 % FxBase, t3 % FxBase, t4 % FxBase,
          t5 % FxBase>>

(* p - q for p >= q *)
FxSub(p, q) ==
    LET t5 == p[5] - q[5]
        t4 == p[4] - q[4] + (t5 \div FxBase)
        t3 == p[3] - q[3] + (t4 \div FxBase)
        t2 == p[2] - q[2] + (t3 \div FxBase)
    IN  <<p[1] - q[1] + (t2 \div FxBase), t2 % FxBase, t3 % FxBase, t4 % FxBase,
          t5 % FxBase>>

(* p * m for an integer m *)
FxMul(p, m) ==
    LET t5 == p[5] * m
        t4 == p[4] * m + (t5 \div FxBase)
        t3 == p[3] * m + (t4 \div FxBase)
        t2 == p[2] * m + (t3 \div FxBase)
    IN  <<p[1] * m + (t2 \div FxBase), t2 % FxBase, t3 % FxBase, t4 % FxBase,
          t5 % FxBase>>

(* p / d for an integer d > 0 *)
FxDiv(p, d) ==
    LET t2 == (p[1] % d) * FxBase + p[2]
        t3 == (t2 % d) * FxBase + p[3]
        t4 == (t3 % d) * FxBase + p[4]
        t5 == (t4 % d) * FxBase + p[5]
    IN  <<p[1] \div d, t2 \div d, t3 \div d, t4 \div d, t5 \div d>>

FxLess(p, q) ==
    \E k \in 1 .. 5 : p[k] < q[k] /\ \A j \in 1 .. k - 1 : p[j] = q[j]

FxLeq(p, q) == p = q \/ FxLess(p, q)

THRESHOLD_EXACT_S == 87670

(* the switch of lines 193-206 *)
SeparationTable ==
    [k \in 0 .. 10 |->
        CASE k = 0 -> FxInt(0)
          [] k = 1 -> FxInt(0)
          [] k = 2 -> FxInt(1)
          [] k = 3 -> FxAdd(FxInt(1), FxDiv(FxInt(1), 3))
          [] k = 4 -> FxAdd(FxAdd(FxInt(1), FxDiv(FxInt(1), 3)), FxDiv(FxInt(2), 9))
          [] k = 5 -> <<1, 716, 666, 666, 670>>
          [] k = 6 -> <<1, 840, 0, 0, 0>>
          [] k = 7 -> <<1, 938, 95, 240, 0>>
          [] k = 8 -> <<2, 18, 367, 350, 0>>
          [] k = 9 -> <<2, 85, 515, 870, 0>>
          [] k = 10 -> <<2, 142, 680, 780, 0>>]

(* the constants of lines 220-241, from the largest threshold down *)
Checkpoints ==
    << <<THRESHOLD_EXACT_S, FxInt(3)>>,
       <<40774, <<2, 999, 0, 0, 0>> >>,
       <<18844, <<2, 998, 0, 0, 0>> >>,
       <<11956, <<2, 997, 0, 0, 0>> >>,
       <<8643, <<2, 996, 0, 0, 0>> >>,
       <<6713, <<2, 995, 0, 0, 0>> >>,
       <<4229, <<2, 992, 500, 0, 0>> >>,
       <<3040, <<2, 990, 0, 0, 0>> >>,
       <<2724, <<2, 989, 0, 0, 0>> >>,
       <<1902, <<2, 985, 0, 0, 0>> >>,
       <<1360, <<2, 980, 0, 0, 0>> >> >>

(* a step that adds the quotient twice *)
RecurrenceTwice(c, i) ==
    FxAdd(c, FxMul(FxDiv(FxDiv(FxSub(FxInt(3 * i - 4), FxMul(c, i)), i), i - 1), 2))

(* curr += (-curr * i + 3. * i - 4.) / (i * (i - 1)); a negative quotient is
   subtracted, and one that would take the value below 0 leaves 0 *)
RecurrenceStep(c, i) ==
    LET prod == FxMul(c, i)
        top == FxInt(3 * i - 4)
    IN  IF FxLeq(prod, top)
        THEN FxAdd(c, FxDiv(FxDiv(FxSub(top, prod), i), i - 1))
        ELSE LET q == FxDiv(FxDiv(FxSub(prod, top), i), i - 1)
             IN  IF FxLeq(q, c) THEN FxSub(c, q) ELSE FxInt(0)

(* the loop of lines 249-250 *)
RECURSIVE RecurrenceLoop(_, _, _)
RecurrenceLoop(c, i, last) ==
    IF i > last THEN c ELSE RecurrenceLoop(RecurrenceStep(c, i), i + 1, last)

expected_separation_depth_hotstart(c, n_curr, last) ==
    IF last >= 1360
    THEN LET k == CHOOSE j \in 1 .. Len(Checkpoints) :
                     /\ last >= Checkpoints[j][1]
                     /\ \A h \in 1 .. j - 1 : last < Checkpoints[h][1]
         IN  Checkpoints[k][2]
    ELSE RecurrenceLoop(c, n_curr + 1, last)

(* expected_separation_depth(size_t n), given the value the loop reached
   at n - 1 when that is past the table: the loop from 10 to n is the loop
   from 10 to n - 1 followed by one more iteration *)
expected_separation_depth(k, reached) ==
    IF k <= 10 THEN SeparationTable[k]
    ELSE IF k >= THRESHOLD_EXACT_S THEN FxInt(3)
    ELSE expected_separation_depth_hotstart(reached, k - 1, k)

(* expected_separation_depth(long double n) for n = k + quarters / 4 with
   k >= 2 below THRESHOLD_EXACT_S: floorl(n) = k, ceill(n) = k when n is
   an integer and k + 1 otherwise *)
Interpolated(low, k, quarters) ==
    LET u == IF quarters = 0 THEN k ELSE k + 1
        prod == FxMul(low, u)
        top == FxInt(3 * u - 4)
        high == IF FxLeq(prod, top)
                THEN FxAdd(low, FxDiv(FxDiv(FxSub(top, prod), u), u - 1))
                ELSE FxSub(low, FxDiv(FxDiv(FxSub(prod, top), u), u - 1))
    IN  FxAdd(low, FxDiv(FxMul(high, quarters), 4))

MaxSampleSize == 87672

InitDepth ==
    /\ prog = "expected_separation_depth"
    /\ pc = "sized"
    /\ n_final = 2
    /\ curr = SeparationTable[10]
    /\ s_l = expected_separation_depth(1, SeparationTable[10])
    /\ s_u = expected_separation_depth(2, SeparationTable[10])
    /\ interp = <<>>
    /\ frames = <<>>
    /\ n = 0
    /\ weights = NULL
    /\ tree_levels = 0
    /\ in_range = TRUE
    /\ IdleShuffle
    /\ IdleDeliver
    /\ IdleRange
    /\ IdleRepro
    /\ IdlePredict
    /\ IdleComb
    /\ IdleLog2
    /\ IdleSignal
    /\ IdleSampler
    /\ IdleDivide
    /\ IdleRows

(* the call for the next n; curr keeps what the loop reached, which is the
   value returned while n is between the table and the first checkpoint *)
NextSize ==
    /\ prog = "expected_separation_depth" /\ pc = "sized"
    /\ n_final < MaxSampleSize
    /\ n_final' = n_final + 1
    /\ s_l' = s_u
    /\ s_u' = expected_separation_depth(n_final + 1, curr)
    /\ curr' = IF n_final + 1 > 10 /\ n_final + 1 < 1360 THEN s_u' ELSE curr
    /\ UNCHANGED <<prog, deliverVars, rangeVars, pc, interp, frames, reproVars, predictVars, combVars, log2Vars,
                   signalVars, divideVars, weights, n, tree_levels, in_range,
                   shuffleVars, rowsVars, samplerVars>>

(* the fractional overload called with n_final - 1 + quarters / 4 *)
Interpolate ==
    /\ prog = "expected_separation_depth" /\ pc = "sized"
    /\ n_final >= 3
    /\ \E quarters \in 0 .. 3 :
          interp' = [floor |-> n_final - 1, quarters |-> quarters,
                     value |-> IF n_final - 1 >= THRESHOLD_EXACT_S THEN FxInt(3)
                               ELSE Interpolated(s_l, n_final - 1, quarters)]
    /\ pc' = "interpolated"
    /\ UNCHANGED <<prog, deliverVars, rangeVars, n_final, curr, s_l, s_u, frames, reproVars, predictVars,
                   combVars, log2Vars, signalVars, divideVars, weights, n, tree_levels,
                   in_range, shuffleVars, rowsVars, samplerVars>>

NextDepth == NextSize \/ Interpolate

SpecDepth == InitDepth /\ [][NextDepth]_vars

(* ------------------------------------------------------------------ *)
(* get_range, dense and sparse (utils.hpp:1610-1734)                   *)
(* ------------------------------------------------------------------ *)
RangeRows == 4

RangeLen == 3

(* HUGE_VAL, above every number used and apart from NaN *)
HUGE_VAL == 50

(* a < b on doubles: false when either is NaN *)
Less(a, b) == ~isnan(a) /\ ~isnan(b) /\ a < b

(* std::fmin and std::fmax: a NaN argument is ignored *)
fmin(a, b) == IF isnan(a) THEN b ELSE IF isnan(b) THEN a ELSE IF b < a THEN b ELSE a

fmax(a, b) == IF isnan(a) THEN b ELSE IF isnan(b) THEN a ELSE IF b > a THEN b ELSE a

(* the update of xmin and xmax with one value, lines 1621-1622 and 1631-1632 *)
Widen(r, v, action) ==
    IF action = "Fail"
    THEN [r EXCEPT !.xmin = IF Less(v, r.xmin) THEN v ELSE r.xmin,
                   !.xmax = IF Less(r.xmax, v) THEN v ELSE r.xmax]
    ELSE [r EXCEPT !.xmin = fmin(r.xmin, v), !.xmax = fmax(r.xmax, v)]

(* line 1636 and line 1721 *)
Flagged(r) ==
    [xmin |-> r.xmin, xmax |-> r.xmax,
     unsplittable |-> \/ r.xmin = r.xmax
                      \/ (r.xmin = HUGE_VAL /\ r.xmax = 0 - HUGE_VAL)
                      \/ isnan(r.xmin) \/ isnan(r.xmax)]

RECURSIVE DenseRangeLoop(_, _, _, _, _, _)
DenseRangeLoop(a, col, row, last, r, action) ==
    IF row > last THEN r
    ELSE DenseRangeLoop(a, col, row + 1, last, Widen(r, col[a[row]], action), action)

(* get_range for regular numeric columns, lines 1610-1637 *)
DenseRange(a, col, first, last, action) ==
    Flagged(DenseRangeLoop(a, col, first, last,
                           [xmin |-> HUGE_VAL, xmax |-> 0 - HUGE_VAL], action))

(* the loops of lines 1671-1691 and 1696-1716 *)
RECURSIVE SparseRangeLoop(_, _, _, _, _, _, _)
SparseRangeLoop(a, last, vals, inds, end_col, s, action) ==
    IF ~(s.row # last + 1 /\ s.curr_pos # end_col + 1 /\ inds[end_col] >= a[s.row])
    THEN s
    ELSE IF inds[s.curr_pos] = a[s.row]
    THEN LET m == [Widen(s, vals[s.curr_pos], action) EXCEPT !.nmatches = s.nmatches + 1]
         IN  IF s.row = last \/ s.curr_pos = end_col THEN m
             ELSE SparseRangeLoop(a, last, vals, inds, end_col,
                      [m EXCEPT !.row = s.row + 1,
                                !.curr_pos = LowerBound(inds, s.curr_pos, end_col + 1,
                                                        a[s.row + 1])],
                      action)
    ELSE IF inds[s.curr_pos] > a[s.row]
    THEN SparseRangeLoop(a, last, vals, inds, end_col,
             [s EXCEPT !.row = LowerBound(a, s.row + 1, last + 1, inds[s.curr_pos])],
             action)
    ELSE SparseRangeLoop(a, last, vals, inds, end_col,
             [s EXCEPT !.curr_pos = LowerBound(inds, s.curr_pos + 1, end_col + 1,
                                               a[s.row])],
             action)

(* get_range for sparse inputs, lines 1640-1723, on the column whose entries
   are Xc_ind[st_col .. end_col] *)
SparseRange(a, first, last, vals, inds, action) ==
    LET nnz_col == Cardinality(DOMAIN inds)
        end_col == st_col + nnz_col - 1
    IN  IF nnz_col = 0 \/ inds[st_col] > a[last] \/ a[first] > inds[end_col]
        THEN [xmin |-> HUGE_VAL, xmax |-> 0 - HUGE_VAL, unsplittable |-> TRUE]
        ELSE LET zeros == \/ nnz_col < last - first + 1
                          \/ inds[st_col] > a[first]
                          \/ inds[end_col] < a[last]
                 s0 == [xmin |-> IF zeros THEN 0 ELSE HUGE_VAL,
                        xmax |-> IF zeros THEN 0 ELSE 0 - HUGE_VAL,
                        row |-> LowerBound(a, first, last + 1, inds[st_col]),
                        curr_pos |-> st_col, nmatches |-> 0]
                 s == SparseRangeLoop(a, last, vals, inds, end_col, s0, action)
             IN  Flagged(IF s.nmatches < last - first + 1
                         THEN [xmin |-> fmin(s.xmin, 0), xmax |-> fmax(s.xmax, 0)]
                         ELSE [xmin |-> s.xmin, xmax |-> s.xmax])

(* slices sorted non-decreasing, with repeated rows *)
SortedSlices ==
    {a \in ArrOf(RangeLen, 0 .. RangeRows - 1) :
        \A i \in 0 .. RangeLen - 2 : a[i] <= a[i + 1]}

InitRange ==
    /\ prog = "get_range"
    /\ pc = "start"
    /\ n = RangeRows
    /\ ix_arr \in SortedSlices
    /\ ix_before = ix_arr
    /\ st \in 0 .. RangeLen - 1
    /\ end \in st .. RangeLen - 1
    /\ x \in ArrOf(n, NumericValues)
    /\ Xc_ind = SparseInd(x)
    /\ Xc = SparseVal(x)
    /\ stray = <<0, 0>>
    /\ split_point = 0
    /\ split_categ = <<>>
    /\ missing_action = "Fail"
    /\ st_NA = Uninit
    /\ end_NA = Uninit
    /\ split_ix = Uninit
    /\ xmin = 0 /\ xmax = 0 /\ unsplittable = FALSE
    /\ weights = NULL
    /\ tree_levels = 0
    /\ in_range = TRUE
    /\ ntake = 0 /\ ix_all = <<>> /\ is_repeated = <<>> /\ repeated_set = {}
    /\ btree_weights = <<>> /\ log2_n = 0 /\ btree_offset = 0 /\ loop_ix = 0
    /\ IdleShuffle
    /\ IdleDeliver
    /\ IdleDepth
    /\ IdleRepro
    /\ IdlePredict
    /\ IdleComb
    /\ IdleLog2
    /\ IdleSignal
    /\ IdleSampler

(* what a call leaves in its three outputs; with MissingAction Fail the
   slice holds no missing value *)
RangeReturns(r, action, variant) ==
    /\ action = "Fail" => \A i \in st .. end : ~isnan(x[ix_arr[i]])
    /\ missing_action' = action
    /\ xmin' = r.xmin
    /\ xmax' = r.xmax
    /\ unsplittable' = r.unsplittable
    /\ pc' = variant
    /\ UNCHANGED <<prog, deliverVars, depthVars, reproVars, predictVars, combVars, log2Vars,
                   signalVars, weights, n, tree_levels, in_range, shuffleVars,
                   rowsVars, samplerVars, x, st, end, split_point, split_categ, st_NA,
                   end_NA, split_ix, Xc, Xc_ind, stray, ix_before>>

GetRangeDense ==
    /\ prog = "get_range" /\ pc = "start"
    /\ \E action \in MissingActions :
          RangeReturns(DenseRange(ix_arr, x, st, end, action), action, "dense")

GetRangeSparse ==
    /\ prog = "get_range" /\ pc = "start"
    /\ \E action \in MissingActions :
          RangeReturns(SparseRange(ix_arr, st, end, Xc, Xc_ind, action), action, "sparse")

NextRange == GetRangeDense \/ GetRangeSparse

SpecRange == InitRange /\ [][NextRange]_vars

(* ------------------------------------------------------------------ *)
(* harmonic, digamma, expected_avg_depth (utils.hpp:97-171)            *)
(* ------------------------------------------------------------------ *)
THRESHOLD_EXACT_H == 256

MaxHarmonic == 40

(* the depth of the call stack at which the process runs out of stack *)
MaxFrames == 12

HarmonicCallers == {"harmonic", "digamma", "expected_avg_depth"}

HarmonicArgs == (0 .. MaxHarmonic) \cup {THRESHOLD_EXACT_H, THRESHOLD_EXACT_H + 1}

(* the argument with which the caller reaches harmonic(), or Uninit when it
   returns without calling it: digamma(x) calls harmonic(x - 1) for an integer
   x <= THRESHOLD_EXACT_H, expected_avg_depth(n) returns a constant for n in
   1..9 and calls harmonic(n) otherwise *)
HarmonicArgument(caller, arg) ==
    CASE caller = "harmonic" -> arg
      [] caller = "digamma" -> IF arg <= THRESHOLD_EXACT_H THEN arg - 1 ELSE Uninit
      [] caller = "expected_avg_depth" -> IF arg \in 1 .. 9 THEN Uninit ELSE arg

(* a frame of harmonic_recursive(a, b): at is "enter", then "left" while the
   first recursive call runs and "right" while the second one runs *)
Frame(a, b) == [a |-> a, b |-> b, at |-> "enter"]

(* double m = floor((a + b) / 2) *)
Midpoint(a, b) == (a + b) \div 2

InitHarmonic ==
    /\ prog \in HarmonicCallers
    /\ pc = "call"
    /\ n \in HarmonicArgs
    /\ prog = "digamma" => n >= 1
    /\ frames = <<>>
    /\ n_final = 0 /\ curr = <<>> /\ s_l = <<>> /\ s_u = <<>> /\ interp = <<>>
    /\ weights = NULL
    /\ tree_levels = 0
    /\ in_range = TRUE
    /\ IdleShuffle
    /\ IdleDeliver
    /\ IdleRange
    /\ IdleRepro
    /\ IdlePredict
    /\ IdleComb
    /\ IdleLog2
    /\ IdleSignal
    /\ IdleSampler
    /\ IdleDivide
    /\ IdleRows

HarmonicFrame ==
    UNCHANGED <<prog, deliverVars, rangeVars, n_final, curr, s_l, s_u, interp, reproVars, predictVars,
                combVars, log2Vars, signalVars, divideVars, weights, n, tree_levels,
                in_range, shuffleVars, rowsVars, samplerVars>>

(* lines 106-107, 134-141, 159-170: the caller returns a closed form or a
   constant, or calls harmonic_recursive(1, n + 1) *)
HarmonicCall ==
    /\ prog \in HarmonicCallers /\ pc = "call"
    /\ LET h == HarmonicArgument(prog, n)
       IN  IF h = Uninit \/ h > THRESHOLD_EXACT_H
           THEN pc' = "returned" /\ frames' = frames
           ELSE pc' = "recursing" /\ frames' = <<Frame(1, h + 1)>>
    /\ HarmonicFrame

(* line 145: if (b == a + 1) return 1 / a; *)
RecurseBase ==
    /\ prog \in HarmonicCallers /\ pc = "recursing"
    /\ LET top == frames[Len(frames)]
       IN  /\ top.at = "enter"
           /\ top.b = top.a + 1
    /\ frames' = SubSeq(frames, 1, Len(frames) - 1)
    /\ pc' = IF Len(frames) = 1 THEN "returned" ELSE "recursing"
    /\ HarmonicFrame

(* lines 146-147: the call harmonic_recursive(a, m) *)
RecurseLeft ==
    /\ prog \in HarmonicCallers /\ pc = "recursing"
    /\ Len(frames) < MaxFrames
    /\ LET top == frames[Len(frames)]
       IN  /\ top.at = "enter"
           /\ top.b # top.a + 1
           /\ frames' = Append([frames EXCEPT ![Len(frames)].at = "left"],
                               Frame(top.a, Midpoint(top.a, top.b)))
    /\ pc' = "recursing"
    /\ HarmonicFrame

(* line 147: the call harmonic_recursive(m, b), after the first has returned *)
RecurseRight ==
    /\ prog \in HarmonicCallers /\ pc = "recursing"
    /\ Len(frames) < MaxFrames
    /\ LET top == frames[Len(frames)]
       IN  /\ top.at = "left"
           /\ frames' = Append([frames EXCEPT ![Len(frames)].at = "right"],
                               Frame(Midpoint(top.a, top.b), top.b))
    /\ pc' = "recursing"
    /\ HarmonicFrame

(* line 147: both calls have returned and the sum is returned *)
RecurseReturn ==
    /\ prog \in HarmonicCallers /\ pc = "recursing"
    /\ frames[Len(frames)].at = "right"
    /\ frames' = SubSeq(frames, 1, Len(frames) - 1)
    /\ pc' = IF Len(frames) = 1 THEN "returned" ELSE "recursing"
    /\ HarmonicFrame

(* a call for which no stack is left *)
StackExhausted ==
    /\ prog \in HarmonicCallers /\ pc = "recursing"
    /\ Len(frames) >= MaxFrames
    /\ LET top == frames[Len(frames)]
       IN  \/ top.at = "enter" /\ top.b # top.a + 1
           \/ top.at = "left"
    /\ pc' = "stack_exhausted"
    /\ frames' = frames
    /\ HarmonicFrame

NextHarmonic ==
    \/ HarmonicCall
    \/ RecurseBase
    \/ RecurseLeft
    \/ RecurseRight
    \/ RecurseReturn
    \/ StackExhausted

SpecHarmonic == InitHarmonic /\ [][NextHarmonic]_vars

(* a call that can take a step takes it *)
FairHarmonic == SpecHarmonic /\ WF_vars(NextHarmonic)

(* ------------------------------------------------------------------ *)
(* Shape of a weight tree                                              *)
(* ------------------------------------------------------------------ *)
RECURSIVE LeafTotal(_, _, _)
LeafTotal(tree, first, count) ==
    IF count = 0 THEN 0
    ELSE tree[first + count - 1] + LeafTotal(tree, first, count - 1)

(* the sum invariant of a tree of the given depth over the items 0..nitems-1:
   removed items have a zero leaf, and if nothing was removed or filtered
   every item has its clamped weight *)
TreeSumsHold(tree, levels, w, nitems, removed, untouched) ==
    LET first == pow2(levels) - 1
    IN  /\ DOMAIN tree = 0 .. pow2(levels + 1) - 1
        /\ \A ix \in 0 .. first - 1 :
              tree[ix] = tree[ix_child(ix)] + tree[ix_child(ix) + 1]
        /\ \A i \in 0 .. nitems - 1 :
              /\ tree[first + i] \in {0, fmax0(w[i])}
              /\ i \in removed => tree[first + i] = 0
              /\ untouched => tree[first + i] = fmax0(w[i])
        /\ \A i \in nitems .. first : tree[first + i] = 0
        /\ tree[0] = LeafTotal(tree, first, first + 1)

(* ------------------------------------------------------------------ *)
(* log2ceil on the full 64-bit range (utils.hpp:70-92)                 *)
(* ------------------------------------------------------------------ *)
(* A size_t is held as eight 8-bit limbs, low limb first, so that every
   intermediate value of the arithmetic fits the integers of the checker. *)
Limbs == 0 .. 7

ToLimbs(v) == [i \in Limbs |-> IF i > 3 THEN 0 ELSE (v \div pow2(8 * i)) % 256]

(* the highest bit of a size_t *)
TopBit == 63

(* 2^e as a size_t, e <= 63 *)
Pow2Limbs(e) == [i \in Limbs |-> IF i = e \div 8 THEN pow2(e % 8) ELSE 0]

(* value--, with wrap-around at zero *)
Dec64(a) ==
    [i \in Limbs |-> IF \A j \in 0 .. i - 1 : a[j] = 0
                     THEN (a[i] + 255) % 256 ELSE a[i]]

(* a + 1, with wrap-around *)
Inc64(a) ==
    [i \in Limbs |-> IF \A j \in 0 .. i - 1 : a[j] = 255
                     THEN (a[i] + 1) % 256 ELSE a[i]]

(* a >> k *)
Shr64(a, k) ==
    LET by == k \div 8
        bits == k % 8
        limb(i) == IF i + by <= 7 THEN a[i + by] ELSE 0
    IN  [i \in Limbs |->
           (limb(i) \div pow2(bits)) + (limb(i + 1) % pow2(bits)) * pow2(8 - bits)]

Or64(a, b) == [i \in Limbs |-> BitOr(a[i], b[i])]

(* the borrow into limb i of a - b *)
RECURSIVE Borrow64(_, _, _)
Borrow64(a, b, i) ==
    IF i = 0 THEN 0
    ELSE IF a[i - 1] - Borrow64(a, b, i - 1) < b[i - 1] THEN 1 ELSE 0

(* a - b modulo 2^64 *)
Sub64(a, b) ==
    [i \in Limbs |-> (a[i] - b[i] - Borrow64(a, b, i) + 256) % 256]

(* value |= value >> k for k = 1, 2, 4, 8, 16, 32, lines 85-90 *)
Smear64(a) ==
    LET v1 == Or64(a, Shr64(a, 1))
        v2 == Or64(v1, Shr64(v1, 2))
        v4 == Or64(v2, Shr64(v2, 4))
        v8 == Or64(v4, Shr64(v4, 8))
        v16 == Or64(v8, Shr64(v8, 16))
    IN  Or64(v16, Shr64(v16, 32))

(* 0x07EDD5E59A4E28C2, low limb first *)
DeBruijn64 == [i \in Limbs |-> <<194, 40, 78, 154, 229, 213, 237, 7>>[i + 1]]

(* column k of the schoolbook product a * DeBruijn64 *)
RECURSIVE MulColumn(_, _, _)
MulColumn(a, k, i) ==
    IF i > k THEN 0
    ELSE a[i] * DeBruijn64[k - i] + MulColumn(a, k, i + 1)

RECURSIVE MulCarry(_, _)
MulCarry(a, k) ==
    IF k = 0 THEN 0
    ELSE (MulColumn(a, k - 1, 0) + MulCarry(a, k - 1)) \div 256

(* ((uint64_t)(a * 0x07EDD5E59A4E28C2)) >> 58, line 91 *)
MulTop6(a) == ((MulColumn(a, 7, 0) + MulCarry(a, 7)) % 256) \div 4

(* log2ceil, lines 80-92, little-endian build *)
log2ceil64(a) ==
    LET v == Smear64(Dec64(a))
    IN  tab64[MulTop6(Sub64(v, Shr64(v, 1))) + 1] + 1

(* the arguments tried: 1 .. MaxSmall, and 2^e - 1, 2^e, 2^e + 1 for every
   bit position e *)
MaxSmall == 40

Log2Inputs ==
    {ToLimbs(v) : v \in 1 .. MaxSmall}
        \cup {Pow2Limbs(e) : e \in 0 .. TopBit}
        \cup {Inc64(Pow2Limbs(e)) : e \in 0 .. TopBit}
        \cup {Dec64(Pow2Limbs(e)) : e \in 1 .. TopBit}
        \cup {Dec64(ToLimbs(0))}

InitLog2 ==
    /\ prog = "log2ceil"
    /\ pc = "call"
    /\ value64 \in Log2Inputs
    /\ result = 0
    /\ weights = <<>> /\ n = 0 /\ tree_levels = 0 /\ in_range = TRUE
    /\ IdleShuffle
    /\ IdleDeliver
    /\ IdleRange
    /\ IdleDepth
    /\ IdleRepro
    /\ IdlePredict
    /\ IdleComb
    /\ IdleSignal
    /\ IdleRows
    /\ IdleSampler
    /\ IdleDivide

Log2Call ==
    /\ prog = "log2ceil" /\ pc = "call"
    /\ result' = log2ceil64(value64)
    /\ pc' = "return"
    /\ UNCHANGED <<prog, deliverVars, rangeVars, depthVars, reproVars, predictVars, combVars, signalVars, value64, weights, n, tree_levels, in_range,
                   shuffleVars, rowsVars, samplerVars, divideVars>>

NextLog2 == Log2Call

SpecLog2 == InitLog2 /\ [][NextLog2]_vars

(* ------------------------------------------------------------------ *)
(* The pair counters: ix_comb, increase_comb_counter,                  *)
(* increase_comb_counter_in_groups, tmat_to_dense (utils.hpp:265-415)  *)
(* ------------------------------------------------------------------ *)
(* the largest number of points, and of counting calls in one behaviour *)
MaxPoints == 4

MaxCalls == 2

(* size_t arithmetic wraps; the model wraps at 2^15, far above every index it
   uses, so that a difference that went below zero lands outside every array *)
SizeWrap == 32768

USub(a, b) == (a - b + SizeWrap) % SizeWrap

(* an index formula without the "- 1" *)
ix_comb_off(i, j, nn, ncomb) ==
    USub(ncomb + USub(j, i), (USub(nn, i) * USub(USub(nn, i), 1)) \div 2)

(* #define ix_comb, line 265 *)
ix_comb(i, j, nn, ncomb) ==
    USub(USub(ncomb + USub(j, i), 1), (USub(nn, i) * USub(USub(nn, i), 1)) \div 2)

(* exp_remainder is a double: a value <= 1 and a value > 1 *)
ExpRemainders == {1, 2}

(* no weights, or weights whose products tell the pairs apart from 1 and
   mostly from each other *)
PointWeights(nn) == {NULL, [i \in 0 .. nn - 1 |-> i + 1]}

(* the pairs i < j of points *)
PointPairs(nn) == {p \in (0 .. nn - 1) \X (0 .. nn - 1) : p[1] < p[2]}

(* what one call should add for the pair (i, j), in the words of the
   documentation: 1 or the product of the weights, times exp_remainder when
   that is above 1 *)
ExpectedAmount(w, er, i, j) ==
    (IF w = NULL THEN 1 ELSE w[i] * w[j]) * (IF er > 1 THEN er ELSE 1)

(* lines 270-290, 297-318: the two loops; the result is the counter and
   whether every index was inside it *)
RECURSIVE CombLoop(_, _, _, _, _, _, _, _)
CombLoop(cnt, a, el1, el2, last, nn, w, er) ==
    IF el1 >= last THEN [counter |-> cnt, ok |-> TRUE]
    ELSE IF el2 > last THEN CombLoop(cnt, a, el1 + 1, el1 + 2, last, nn, w, er)
    ELSE LET i == IF a[el1] < a[el2] THEN a[el1] ELSE a[el2]
             j == IF a[el1] < a[el2] THEN a[el2] ELSE a[el1]
             k == ix_comb(i, j, nn, (nn * (nn - 1)) \div 2)
             amount == IF er <= 1
                       THEN IF w = NULL THEN 1 ELSE w[i] * w[j]
                       ELSE IF w = NULL THEN er ELSE w[i] * w[j] * er
         IN  IF k \notin DOMAIN cnt THEN [counter |-> cnt, ok |-> FALSE]
             ELSE CombLoop([cnt EXCEPT ![k] = @ + amount], a, el1, el2 + 1,
                           last, nn, w, er)

InitComb ==
    /\ prog = "increase_comb_counter"
    /\ pc = "count"
    /\ n \in 2 .. MaxPoints
    /\ weights \in PointWeights(n)
    /\ counter = [k \in 0 .. (n * (n - 1)) \div 2 - 1 |-> 0]
    /\ acc = [p \in PointPairs(n) |-> 0]
    /\ exp_remainder = 0
    /\ calls = 0
    /\ dmat = [k \in 0 .. n * n - 1 |-> Uninit]
    /\ diag_to_one = FALSE
    /\ ix_arr = Iota(n)
    /\ st = 0 /\ end = 0 /\ split_ix = 0
    /\ tree_levels = 0 /\ in_range = TRUE
    /\ IdleShuffle
    /\ IdleDeliver
    /\ IdleRange
    /\ IdleDepth
    /\ IdleRepro
    /\ IdlePredict
    /\ IdleSignal
    /\ IdleLog2
    /\ ntake = 0 /\ ix_all = <<>> /\ is_repeated = <<>>
    /\ repeated_set = {} /\ btree_weights = <<>> /\ log2_n = 0
    /\ btree_offset = 0 /\ loop_ix = 0
    /\ IdleSampler
    /\ x = <<>> /\ split_point = 0 /\ split_categ = <<>>
    /\ missing_action = "Fail" /\ st_NA = 0 /\ end_NA = 0
    /\ Xc = <<>> /\ Xc_ind = <<>> /\ stray = <<>> /\ ix_before = <<>>

CombFrame ==
    UNCHANGED <<prog, deliverVars, rangeVars, depthVars, reproVars, predictVars, signalVars, log2Vars, weights, n, tree_levels, shuffleVars,
                samplerVars, ntake, ix_all, is_repeated, repeated_set,
                btree_weights, log2_n, btree_offset, loop_ix, x, split_point,
                split_categ, missing_action, st_NA, end_NA, split_ix, Xc, Xc_ind,
                stray, ix_before>>

(* one call of increase_comb_counter on the rows ix_arr[st..end] of a node;
   the rows of ix_arr are distinct *)
increase_comb_counter ==
    /\ prog = "increase_comb_counter" /\ pc = "count" /\ in_range
    /\ calls < MaxCalls
    /\ \E a \in Perms(n), first \in 0 .. n - 1, er \in ExpRemainders :
       \E last \in first .. n - 1 :
          LET r == CombLoop(counter, a, first, first + 1, last, n, weights, er)
              inside == {a[e] : e \in first .. last}
          IN  /\ ix_arr' = a
              /\ st' = first
              /\ end' = last
              /\ exp_remainder' = er
              /\ counter' = r.counter
              /\ in_range' = r.ok
              /\ acc' = [p \in PointPairs(n) |->
                           IF p[1] \in inside /\ p[2] \in inside
                           THEN acc[p] + ExpectedAmount(weights, er, p[1], p[2])
                           ELSE acc[p]]
    /\ calls' = calls + 1
    /\ UNCHANGED <<pc, dmat, diag_to_one>>
    /\ CombFrame

(* lines 401-408: the pairs i < j *)
RECURSIVE DenseLoop(_, _, _, _, _)
DenseLoop(d, tmat, i, j, nn) ==
    IF i >= nn - 1 THEN [dmat |-> d, ok |-> TRUE]
    ELSE IF j >= nn THEN DenseLoop(d, tmat, i + 1, i + 2, nn)
    ELSE LET k == ix_comb(i, j, nn, (nn * (nn - 1)) \div 2)
         IN  IF k \notin DOMAIN tmat THEN [dmat |-> d, ok |-> FALSE]
             ELSE DenseLoop([d EXCEPT ![i + j * nn] = tmat[k],
                                      ![j + i * nn] = tmat[k]],
                            tmat, i, j + 1, nn)

(* tmat_to_dense, lines 398-415 *)
tmat_to_dense ==
    /\ prog = "increase_comb_counter" /\ pc = "count" /\ in_range
    /\ \E one \in BOOLEAN :
          LET r == DenseLoop(dmat, counter, 0, 1, n)
          IN  /\ diag_to_one' = one
              /\ in_range' = r.ok
              /\ dmat' = [k \in DOMAIN dmat |->
                            IF k \div n = k % n
                            THEN (IF one THEN 1 ELSE 0) ELSE r.dmat[k]]
    /\ pc' = "dense"
    /\ UNCHANGED <<counter, acc, exp_remainder, calls, ix_arr, st, end>>
    /\ CombFrame

NextComb == increase_comb_counter \/ tmat_to_dense

SpecComb == InitComb /\ [][NextComb]_vars

(* ---- increase_comb_counter_in_groups, lines 350-396 ---- *)
(* the pairs with the first point below split and the second at or above it *)
CrossPairs(nn, split) ==
    {p \in (0 .. nn - 1) \X (0 .. nn - 1) : p[1] < split /\ split <= p[2]}

(* the precondition: in ix_arr[first..last] every row below split comes
   before every row at or above it *)
Grouped(a, first, last, split) ==
    \A e1, e2 \in first .. last : (e1 < e2 /\ a[e1] >= split) => a[e2] >= split

(* lines 353-358: the rows of the slice in front of the first one that is not
   below split_ix *)
RECURSIVE CountGroup(_, _, _, _)
CountGroup(a, ix, last, split) ==
    IF ix > last THEN 0
    ELSE IF a[ix] < split THEN 1 + CountGroup(a, ix + 1, last, split)
    ELSE 0

(* an index that multiplies by the number of all points *)
GroupIxAllPoints(i, j, nn, split) == USub(i * (nn + split) + j, split)

(* counter[ix_arr[ix1] * n + ix_arr[ix2] - split_ix], with n the number of
   points at or above split_ix (line 360) *)
GroupIx(i, j, nn, split) == USub(i * nn + j, split)

(* lines 362-369, 384-395: the two loops *)
RECURSIVE GroupLoop(_, _, _, _, _, _, _, _, _, _)
GroupLoop(cnt, a, ix1, ix2, mid, last, nn, split, w, er) ==
    IF ix1 >= mid THEN [counter |-> cnt, ok |-> TRUE]
    ELSE IF ix2 > last THEN GroupLoop(cnt, a, ix1 + 1, mid, mid, last, nn, split, w, er)
    ELSE LET k == GroupIx(a[ix1], a[ix2], nn, split)
             amount == IF er <= 1
                       THEN IF w = NULL THEN 1 ELSE w[a[ix1]] * w[a[ix2]]
                       ELSE IF w = NULL THEN er ELSE w[a[ix1]] * w[a[ix2]] * er
         IN  IF k \notin DOMAIN cnt THEN [counter |-> cnt, ok |-> FALSE]
             ELSE GroupLoop([cnt EXCEPT ![k] = @ + amount], a, ix1, ix2 + 1, mid,
                            last, nn, split, w, er)

InitGroups ==
    /\ prog = "increase_comb_counter_in_groups"
    /\ pc = "count"
    /\ n \in 2 .. MaxPoints
    /\ split_ix \in 0 .. n
    /\ weights \in PointWeights(n)
    /\ counter = [k \in 0 .. split_ix * (n - split_ix) - 1 |-> 0]
    /\ acc = [p \in CrossPairs(n, split_ix) |-> 0]
    /\ exp_remainder = 0
    /\ calls = 0
    /\ dmat = <<>>
    /\ diag_to_one = FALSE
    /\ ix_arr = Iota(n)
    /\ st = 0 /\ end = 0
    /\ tree_levels = 0 /\ in_range = TRUE
    /\ IdleShuffle
    /\ IdleDeliver
    /\ IdleRange
    /\ IdleDepth
    /\ IdleRepro
    /\ IdlePredict
    /\ IdleSignal
    /\ IdleLog2
    /\ ntake = 0 /\ ix_all = <<>> /\ is_repeated = <<>>
    /\ repeated_set = {} /\ btree_weights = <<>> /\ log2_n = 0
    /\ btree_offset = 0 /\ loop_ix = 0
    /\ IdleSampler
    /\ x = <<>> /\ split_point = 0 /\ split_categ = <<>>
    /\ missing_action = "Fail" /\ st_NA = 0 /\ end_NA = 0
    /\ Xc = <<>> /\ Xc_ind = <<>> /\ stray = <<>> /\ ix_before = <<>>

(* one call of increase_comb_counter_in_groups on a slice that meets the
   precondition *)
increase_comb_counter_in_groups ==
    /\ prog = "increase_comb_counter_in_groups" /\ pc = "count" /\ in_range
    /\ calls < MaxCalls
    /\ \E a \in Perms(n), first \in 0 .. n - 1, er \in ExpRemainders :
       \E last \in first .. n - 1 :
          /\ Grouped(a, first, last, split_ix)
          /\ LET n_group == CountGroup(a, first, last, split_ix)
                 r == GroupLoop(counter, a, first, first + n_group,
                                first + n_group, last, USub(n, split_ix),
                                split_ix, weights, er)
                 inside == {a[e] : e \in first .. last}
             IN  /\ ix_arr' = a
                 /\ st' = first
                 /\ end' = last
                 /\ exp_remainder' = er
                 /\ counter' = r.counter
                 /\ in_range' = r.ok
                 /\ acc' = [p \in CrossPairs(n, split_ix) |->
                              IF p[1] \in inside /\ p[2] \in inside
                              THEN acc[p] + ExpectedAmount(weights, er, p[1], p[2])
                              ELSE acc[p]]
    /\ calls' = calls + 1
    /\ UNCHANGED <<pc, dmat, diag_to_one>>
    /\ CombFrame

NextGroups == increase_comb_counter_in_groups

SpecGroups == InitGroups /\ [][NextGroups]_vars

(* ------------------------------------------------------------------ *)
(* Interrupt handling: the globals and SignalSwitcher                  *)
(* (utils.hpp:1902-1982)                                               *)
(* ------------------------------------------------------------------ *)
(* The blocks under "#pragma omp critical" are unnamed critical sections:
   one at a time runs, so each is one step.  The switchers of all threads
   and nesting levels are the objects of Switchers; the model lets their
   lifetimes interleave freely, which includes the nested (last made, first
   destroyed) order of one thread.  Each object record keeps its position
   ("unborn", "running", "raise", "unwinding", "dtor", "dead"), the members
   is_active and old_sig, and for the observer: whether the constructor took
   the lock (owned), the handler installed right before and right after the
   constructor (before, after), how many times it called
   signal(SIGINT, old_sig) (restores) and from where (via). *)
MaxSwitchers == 3

Switchers == 1 .. MaxSwitchers

set_interrup_global_variable == "set_interrup_global_variable"

(* what the caller may have installed for SIGINT before any switcher *)
CallerHandlers == {"SIG_DFL", "caller_handler"}

(* _FOR_PYTHON, and whether check_interrupt_switch leaves by an exception
   (lines 1921-1925) or returns (DONT_THROW_ON_INTERRUPT) *)
Builds == [python : BOOLEAN, throws : BOOLEAN, first_sig : CallerHandlers]

InitSignal ==
    /\ prog = "SignalSwitcher"
    /\ pc = "run"
    /\ build \in Builds
    /\ sigint = build.first_sig
    /\ interrupt_switch = FALSE
    /\ handle_is_locked = FALSE
    /\ sw = [o \in Switchers |->
               [at |-> "unborn", is_active |-> FALSE, old_sig |-> "",
                owned |-> FALSE, before |-> "", after |-> "",
                restores |-> 0, via |-> ""]]
    /\ weights = <<>> /\ n = 0 /\ tree_levels = 0 /\ in_range = TRUE
    /\ IdleShuffle
    /\ IdleDeliver
    /\ IdleRange
    /\ IdleDepth
    /\ IdleRepro
    /\ IdlePredict
    /\ IdleComb
    /\ IdleLog2
    /\ IdleRows
    /\ IdleSampler
    /\ IdleDivide

SignalRunning == prog = "SignalSwitcher" /\ pc = "run"

(* a restore that calls signal(SIGINT, old_sig) and clears the lock whether
   or not this object is the active one *)
RestoreUnguarded(o, caller, next) ==
    /\ sigint' = sw[o].old_sig
    /\ handle_is_locked' = FALSE
    /\ sw' = [sw EXCEPT ![o].is_active = FALSE, ![o].restores = @ + 1,
                        ![o].via = caller, ![o].at = next]

(* a restore that puts the old handler back and leaves the lock flag set *)
RestoreKeepsLock(o, caller, next) ==
    /\ IF sw[o].is_active /\ handle_is_locked
       THEN /\ sigint' = sw[o].old_sig
            /\ sw' = [sw EXCEPT ![o].is_active = FALSE, ![o].restores = @ + 1,
                                ![o].via = caller, ![o].at = next]
       ELSE /\ sw' = [sw EXCEPT ![o].at = next]
            /\ UNCHANGED sigint
    /\ UNCHANGED handle_is_locked

(* SignalSwitcher::restore_handle, lines 1971-1982, called from caller; the
   object goes on at position next *)
restore_handle(o, caller, next) ==
    IF sw[o].is_active /\ handle_is_locked
    THEN /\ sigint' = sw[o].old_sig
         /\ handle_is_locked' = FALSE
         /\ sw' = [sw EXCEPT ![o].is_active = FALSE, ![o].restores = @ + 1,
                             ![o].via = caller, ![o].at = next]
    ELSE /\ sw' = [sw EXCEPT ![o].at = next]
         /\ UNCHANGED <<sigint, handle_is_locked>>

SignalFrame ==
    UNCHANGED <<prog, deliverVars, rangeVars, depthVars, reproVars, predictVars, combVars, log2Vars, build, weights, n, tree_levels, in_range, shuffleVars,
                rowsVars, samplerVars, divideVars>>

(* the constructor, lines 1941-1957 *)
SignalSwitcher(o) ==
    /\ SignalRunning
    /\ sw[o].at = "unborn"
    /\ IF ~handle_is_locked
       THEN /\ handle_is_locked' = TRUE
            /\ interrupt_switch' = FALSE
            /\ sigint' = set_interrup_global_variable
            /\ sw' = [sw EXCEPT ![o].old_sig = sigint, ![o].is_active = TRUE,
                                ![o].owned = TRUE, ![o].before = sigint,
                                ![o].after = set_interrup_global_variable,
                                ![o].at = "running"]
       ELSE /\ sw' = [sw EXCEPT ![o].is_active = FALSE, ![o].before = sigint,
                                ![o].after = sigint, ![o].at = "running"]
            /\ UNCHANGED <<handle_is_locked, interrupt_switch, sigint>>
    /\ UNCHANGED pc
    /\ SignalFrame

(* restore_handle called by the routine that owns the object *)
ExplicitRestore(o) ==
    /\ SignalRunning
    /\ sw[o].at = "running"
    /\ restore_handle(o, "restore_handle", "running")
    /\ UNCHANGED <<pc, interrupt_switch>>
    /\ SignalFrame

(* check_interrupt_switch, lines 1914-1919: the flag is set, restore *)
CheckInterruptSwitch(o) ==
    /\ SignalRunning
    /\ sw[o].at = "running"
    /\ interrupt_switch
    /\ restore_handle(o, "check_interrupt_switch", "raise")
    /\ UNCHANGED <<pc, interrupt_switch>>
    /\ SignalFrame

(* the installed handler runs: the library's sets the flag (line 1906-1912),
   SIG_DFL ends the process, the caller's leaves the model's state alone *)
Deliver ==
    /\ interrupt_switch' =
          IF sigint = set_interrup_global_variable THEN TRUE ELSE interrupt_switch
    /\ pc' = IF sigint = "SIG_DFL" THEN "killed" ELSE pc

(* check_interrupt_switch, lines 1920-1925: raise(SIGINT), then leave by an
   exception or return *)
RaiseAndLeave(o) ==
    /\ SignalRunning
    /\ sw[o].at = "raise"
    /\ Deliver
    /\ sw' = [sw EXCEPT ![o].at = IF build.throws THEN "unwinding" ELSE "running"]
    /\ UNCHANGED <<sigint, handle_is_locked>>
    /\ SignalFrame

(* the destructor, lines 1961-1967: the first critical section *)
DestructorFlag(o) ==
    /\ SignalRunning
    /\ sw[o].at \in {"running", "unwinding"}
    /\ interrupt_switch' =
          IF ~build.python /\ sw[o].is_active /\ handle_is_locked
          THEN FALSE ELSE interrupt_switch
    /\ sw' = [sw EXCEPT ![o].at = "dtor"]
    /\ UNCHANGED <<pc, sigint, handle_is_locked>>
    /\ SignalFrame

(* the destructor, line 1968 *)
DestructorRestore(o) ==
    /\ SignalRunning
    /\ sw[o].at = "dtor"
    /\ restore_handle(o, "destructor", "dead")
    /\ UNCHANGED <<pc, interrupt_switch>>
    /\ SignalFrame

(* SIGINT arrives from outside *)
Interrupt ==
    /\ SignalRunning
    /\ Deliver
    /\ UNCHANGED <<sw, sigint, handle_is_locked>>
    /\ SignalFrame

(* cy_tick_off_interrupt_switch, lines 1935-1938 *)
cy_tick_off_interrupt_switch ==
    /\ SignalRunning
    /\ build.python
    /\ interrupt_switch' = FALSE
    /\ UNCHANGED <<pc, sw, sigint, handle_is_locked>>
    /\ SignalFrame

NextSignal ==
    \/ \E o \in Switchers : SignalSwitcher(o)
    \/ \E o \in Switchers : ExplicitRestore(o)
    \/ \E o \in Switchers : CheckInterruptSwitch(o)
    \/ \E o \in Switchers : RaiseAndLeave(o)
    \/ \E o \in Switchers : DestructorFlag(o)
    \/ \E o \in Switchers : DestructorRestore(o)
    \/ Interrupt
    \/ cy_tick_off_interrupt_switch

SpecSignal == InitSignal /\ [][NextSignal]_vars

(* ------------------------------------------------------------------ *)
(* SIGINT delivered to a thread that is inside SignalSwitcher          *)
(* (utils.hpp:1902-1912, 1941-1982), statement by statement             *)
(* ------------------------------------------------------------------ *)
MaxDeliveries == 2

(* with OpenMP the unnamed critical region is one lock for the process, not
   reentrant; without it the pragma is ignored *)
DeliverBuilds ==
    [openmp : BOOLEAN, python : BOOLEAN, first_sig : CallerHandlers]

(* the thread runs its own code: no handler is on top of its stack *)
ThreadRuns == handler_at \in {"none", "returned"}

(* entering and leaving "#pragma omp critical" *)
CanEnter == ~build.openmp \/ critical = ""

Entered(who) == IF build.openmp THEN who ELSE critical

Left == IF build.openmp THEN "" ELSE critical

InitDeliver ==
    /\ prog = "SignalSwitcher_interrupted"
    /\ pc = "start"
    /\ build \in DeliverBuilds
    /\ sigint = build.first_sig
    /\ interrupt_switch = FALSE
    /\ handle_is_locked = FALSE
    /\ sw = [is_active |-> FALSE, old_sig |-> ""]
    /\ critical = ""
    /\ handler_at = "none"
    /\ delivered = 0
    /\ weights = <<>> /\ n = 0 /\ tree_levels = 0 /\ in_range = TRUE
    /\ IdleShuffle
    /\ IdleRange
    /\ IdleDepth
    /\ IdleRepro
    /\ IdlePredict
    /\ IdleComb
    /\ IdleLog2
    /\ IdleSampler
    /\ IdleDivide
    /\ IdleRows

DeliverFrame ==
    UNCHANGED <<prog, rangeVars, depthVars, reproVars, predictVars, combVars, log2Vars,
                build, weights, n, tree_levels, in_range, shuffleVars, rowsVars,
                samplerVars, divideVars>>

(* line 1943: the constructor enters the critical region *)
CtorEnter ==
    /\ prog = "SignalSwitcher_interrupted" /\ pc = "start"
    /\ ThreadRuns /\ CanEnter
    /\ critical' = Entered("thread")
    /\ pc' = "ctor_in"
    /\ UNCHANGED <<sw, interrupt_switch, handle_is_locked, sigint, handler_at, delivered>>
    /\ DeliverFrame

(* lines 1945-1949: handle_is_locked is false for the only switcher; the
   handler is installed *)
CtorInstall ==
    /\ prog = "SignalSwitcher_interrupted" /\ pc = "ctor_in"
    /\ ThreadRuns
    /\ handle_is_locked' = TRUE
    /\ interrupt_switch' = FALSE
    /\ sw' = [sw EXCEPT !.old_sig = sigint]
    /\ sigint' = set_interrup_global_variable
    /\ pc' = "ctor_installed"
    /\ UNCHANGED <<critical, handler_at, delivered>>
    /\ DeliverFrame

(* line 1950 and the end of the region *)
CtorLeave ==
    /\ prog = "SignalSwitcher_interrupted" /\ pc = "ctor_installed"
    /\ ThreadRuns
    /\ sw' = [sw EXCEPT !.is_active = TRUE]
    /\ critical' = Left
    /\ pc' = "working"
    /\ UNCHANGED <<interrupt_switch, handle_is_locked, sigint, handler_at, delivered>>
    /\ DeliverFrame

(* lines 1961-1962: the destructor enters its first critical region *)
DtorEnter ==
    /\ prog = "SignalSwitcher_interrupted" /\ pc = "working"
    /\ ~build.python
    /\ ThreadRuns /\ CanEnter
    /\ critical' = Entered("thread")
    /\ pc' = "dtor_in"
    /\ UNCHANGED <<sw, interrupt_switch, handle_is_locked, sigint, handler_at, delivered>>
    /\ DeliverFrame

(* lines 1964-1966 *)
DtorFlag ==
    /\ prog = "SignalSwitcher_interrupted" /\ pc = "dtor_in"
    /\ ThreadRuns
    /\ interrupt_switch' = IF sw.is_active /\ handle_is_locked THEN FALSE
                           ELSE interrupt_switch
    /\ critical' = Left
    /\ pc' = "dtor_flagged"
    /\ UNCHANGED <<sw, handle_is_locked, sigint, handler_at, delivered>>
    /\ DeliverFrame

(* line 1973: restore_handle, called by the destructor or, in a Python
   build, by a destructor that has no first region, enters the region *)
RestoreEnter ==
    /\ prog = "SignalSwitcher_interrupted"
    /\ \/ pc = "dtor_flagged"
       \/ pc = "working" /\ build.python
    /\ ThreadRuns /\ CanEnter
    /\ critical' = Entered("thread")
    /\ pc' = "restore_in"
    /\ UNCHANGED <<sw, interrupt_switch, handle_is_locked, sigint, handler_at, delivered>>
    /\ DeliverFrame

(* lines 1975-1977: signal(SIGINT, this->old_sig) *)
RestoreSignal ==
    /\ prog = "SignalSwitcher_interrupted" /\ pc = "restore_in"
    /\ ThreadRuns
    /\ sigint' = IF sw.is_active /\ handle_is_locked THEN sw.old_sig ELSE sigint
    /\ pc' = "restore_signalled"
    /\ UNCHANGED <<sw, interrupt_switch, handle_is_locked, critical, handler_at, delivered>>
    /\ DeliverFrame

(* lines 1978-1981 *)
RestoreLeave ==
    /\ prog = "SignalSwitcher_interrupted" /\ pc = "restore_signalled"
    /\ ThreadRuns
    /\ IF sw.is_active /\ handle_is_locked
       THEN sw' = [sw EXCEPT !.is_active = FALSE] /\ handle_is_locked' = FALSE
       ELSE UNCHANGED <<sw, handle_is_locked>>
    /\ critical' = Left
    /\ pc' = "finished"
    /\ UNCHANGED <<interrupt_switch, sigint, handler_at, delivered>>
    /\ DeliverFrame

(* a SIGINT arrives while the library's handler is installed: the handler
   starts on the stack of the thread, wherever the thread is *)
DeliverSigint ==
    /\ prog = "SignalSwitcher_interrupted"
    /\ sigint = set_interrup_global_variable
    /\ ThreadRuns
    /\ delivered < MaxDeliveries
    /\ handler_at' = "entered"
    /\ delivered' = delivered + 1
    /\ UNCHANGED <<pc, sw, interrupt_switch, handle_is_locked, sigint, critical>>
    /\ DeliverFrame

(* line 1908: the handler enters the critical region, when it can *)
HandlerEnter ==
    /\ prog = "SignalSwitcher_interrupted"
    /\ handler_at = "entered"
    /\ CanEnter
    /\ critical' = Entered("handler")
    /\ handler_at' = "in_critical"
    /\ UNCHANGED <<pc, sw, interrupt_switch, handle_is_locked, sigint, delivered>>
    /\ DeliverFrame

(* lines 1910-1912: the flag is set, the region is left as it was found and
   the handler returns *)
HandlerSet ==
    /\ prog = "SignalSwitcher_interrupted"
    /\ handler_at = "in_critical"
    /\ interrupt_switch' = TRUE
    /\ critical' = IF critical = "handler" THEN "" ELSE critical
    /\ handler_at' = "returned"
    /\ UNCHANGED <<pc, sw, handle_is_locked, sigint, delivered>>
    /\ DeliverFrame

ThreadStep ==
    \/ CtorEnter
    \/ CtorInstall
    \/ CtorLeave
    \/ DtorEnter
    \/ DtorFlag
    \/ RestoreEnter
    \/ RestoreSignal
    \/ RestoreLeave

HandlerStep == HandlerEnter \/ HandlerSet

NextDeliver == ThreadStep \/ HandlerStep \/ DeliverSigint

SpecDeliver == InitDeliver /\ [][NextDeliver]_vars

(* a thread or a handler that can take a step takes it; nothing forces a
   signal to arrive *)
FairDeliver == SpecDeliver /\ WF_vars(ThreadStep) /\ WF_vars(HandlerStep)

(* ------------------------------------------------------------------ *)
(* The three users of a weight tree side by side                       *)
(* ------------------------------------------------------------------ *)
InitWeights == InitShuffle \/ InitRows \/ InitSampler

NextWeights == NextShuffle \/ NextRows \/ NextSampler

SpecWeights == InitWeights /\ [][NextWeights]_vars

(* ------------------------------------------------------------------ *)
(* Claims                                                              *)
(* ------------------------------------------------------------------ *)

(* C1: for every weight vector of length n with positive total (zeros
   allowed), the n draw-then-remove steps of weighted_shuffle yield each index
   0..n-1 exactly once and leave the root weight 0. *)
C1_DrawsArePermutation ==
    (prog = "weighted_shuffle" /\ pc = "done")
        => /\ Len(outp) = n
           /\ {outp[i] : i \in 1 .. n} = 0 .. n - 1
           /\ buffer_arr[0] = 0

(* C2: sample_random_rows without replacement and without weights ends with
   ntake pairwise distinct values in [0, nrows) in ix_arr (all of 0..nrows-1
   when ntake = nrows), in every branch, and uses no index outside
   0..ntake-1 of ix_arr or 0..nrows-1 of the scratch vectors. *)
C2_RowsDistinctInRange ==
    (prog = "sample_random_rows" /\ weights = NULL)
        => /\ in_range
           /\ pc = "done" =>
                 /\ DOMAIN ix_arr = 0 .. ntake - 1
                 /\ \A i \in DOMAIN ix_arr : ix_arr[i] \in 0 .. n - 1
                 /\ \A i, j \in DOMAIN ix_arr : i # j => ix_arr[i] # ix_arr[j]
                 /\ ntake = n => Range(ix_arr) = 0 .. n - 1

(* C2 witnesses: each branch has finished with a sample of at least two rows *)
C2_Witness ==
    /\ prog = "sample_random_rows" /\ weights = NULL /\ pc = "done"
    /\ ntake = 2 /\ n = BigRows
    /\ repeated_set = {ix_arr[0], ix_arr[1]}
    /\ ix_arr[1] = n - 1

(* C6: after drop_col(c) for a column c the sampler had just returned, no
   later sample_col(col, rng) or full-pass sample_col(col) returns c; stated
   for the samplers used as the tree builder uses them (a drop only of the
   column returned last, a full pass opened by prepare_full_pass or
   shuffle_remainder). *)
C6_DroppedNeverReturned ==
    (/\ prog = "ColumnSampler" /\ in_range /\ obs.usage # "misuse"
     /\ obs.call \in {"sample_col", "sample_col_pass"} /\ obs.ok)
        => obs.col \notin dropped

(* C7: once drop_col has been called for every column, get_remaining_cols()
   is 0 and sample_col(col, rng) and the full-pass sample_col(col) return
   false; stated for the same use of the sampler as C6. *)
C7_AllDroppedNoMoreColumns ==
    (prog = "ColumnSampler" /\ in_range /\ obs.usage # "misuse" /\ dropped = 0 .. n - 1)
        => /\ get_remaining_cols = 0
           /\ obs.call \in {"sample_col", "sample_col_pass"} => ~obs.ok

(* C8: a drop_col(c) that directly follows a drop_col(c) of a column the
   sampler had just returned leaves get_remaining_cols() and the set of
   available columns as they were. *)
C8_DropIdempotent ==
    (prog = "ColumnSampler" /\ in_range /\ obs.call = "drop_col" /\ obs.repeat)
        => /\ get_remaining_cols = obs.rem_before
           /\ Available = obs.avail_before

PositiveWeights == Cardinality({i \in DOMAIN weights : weights[i] > 0})

(* C10: leave_m_cols(m) with 0 < m < n_cols on a freshly initialized sampler
   (weighted: with at least m positive weights) leaves get_remaining_cols()
   = m and exactly m distinct available columns in [0, n_cols), and touches
   no element of col_indices outside 0..n_cols-1. *)

C10_LeaveMCols ==
    (/\ prog = "ColumnSampler"
     /\ obs.call = "leave_m_cols"
     /\ obs.arg > 0 /\ obs.arg < n
     /\ weights # NULL => PositiveWeights >= obs.arg)
        => /\ in_range
           /\ get_remaining_cols = obs.arg
           /\ Cardinality(Available) = obs.arg
           /\ Available \subseteq 0 .. n - 1

(* C9: after the build and after every later mutation (removal of a drawn
   leaf, drop_col, leave_m_cols) every internal node of a weight tree is the
   sum of its two children, the leaf of item i holds max(0, weight[i]) or 0 if
   removed, padding leaves hold 0 and the root is the total of the leaves *)
C9_TreeSumInvariant ==
    /\ (prog = "weighted_shuffle" /\ buffer_arr # <<>>)
          => TreeSumsHold(buffer_arr, tree_levels, weights, n, Range(outp), el = 0)
    /\ (prog = "sample_random_rows" /\ btree_weights # <<>>)
          => TreeSumsHold(btree_weights, log2_n, weights, n,
                          {ix_arr[i] : i \in 0 .. loop_ix - 1}, loop_ix = 0)
    /\ (prog = "ColumnSampler" /\ has_weights)
          => TreeSumsHold(tree_weights, tree_levels, weights, n, dropped,
                          obs.call = "initialize")

(* a weighted sampler that has dropped a column of positive weight and still
   has weight left *)
C9_Witness ==
    /\ prog = "ColumnSampler" /\ has_weights
    /\ obs.call = "drop_col"
    /\ weights[obs.arg] > 0
    /\ tree_weights[0] > 0

(* the divide_subset_split call has returned *)
Divided == prog = "divide_subset_split" /\ pc \in {"dense", "sparse", "subset", "single", "two"}

Zone(a, lo, hi) == {a[i] : i \in lo .. hi - 1}

(* C3: every divide_subset_split variant leaves ix_arr[st..end] a permutation
   of what it held before the call, leaves the entries outside [st, end]
   unchanged, and reports st <= st_NA <= end_NA <= end+1, or
   st <= split_ix <= end+1 in Fail mode *)
C3_PermutationFrameBoundaries ==
    Divided =>
        /\ DOMAIN ix_arr = DOMAIN ix_before
        /\ Zone(ix_arr, st, end + 1) = Zone(ix_before, st, end + 1)
        /\ Cardinality(Zone(ix_arr, st, end + 1)) = end - st + 1
        /\ \A i \in DOMAIN ix_before : i \notin st .. end => ix_arr[i] = ix_before[i]
        /\ IF missing_action = "Fail"
           THEN st <= split_ix /\ split_ix <= end + 1
           ELSE st <= st_NA /\ st_NA <= end_NA /\ end_NA <= end + 1

(* a sparse call in a mode that looks at missing values, on a slice strictly
   inside the array, that reordered it into rows on the left and missing ones *)
C3_Witness ==
    /\ Divided /\ pc = "sparse" /\ missing_action # "Fail"
    /\ 0 < st /\ end < n - 1
    /\ st < st_NA /\ st_NA < end_NA
    /\ ix_arr # ix_before

(* C4: dense numeric divide_subset_split in a mode that looks at missing
   values: positions [st, st_NA) hold exactly the rows whose value is not
   missing and <= threshold, [st_NA, end_NA) exactly the rows whose value is
   missing, and [end_NA, end] exactly the rows whose value is > threshold *)
C4_DenseThreeZones ==
    (Divided /\ pc = "dense" /\ missing_action # "Fail") =>
        LET rows == Zone(ix_before, st, end + 1)
        IN  /\ Zone(ix_arr, st, st_NA) = {r \in rows : x[r] # NaN /\ x[r] <= split_point}
            /\ Zone(ix_arr, st_NA, end_NA) = {r \in rows : x[r] = NaN}
            /\ Zone(ix_arr, end_NA, end + 1) = {r \in rows : x[r] # NaN /\ x[r] > split_point}

(* a dense call whose three zones are all non-empty *)
C4_Witness ==
    /\ Divided /\ pc = "dense" /\ missing_action # "Fail"
    /\ st < st_NA /\ st_NA < end_NA /\ end_NA <= end

(* C5: on a sorted slice the sparse divide_subset_split gives the same left,
   missing and right sets and the same split_ix, or st_NA and end_NA, as the
   dense one run on the column with absent rows as 0 *)
C5_SparseEqualsDense ==
    (Divided /\ pc = "sparse") =>
        LET d == DenseNumeric(ix_before, x, st, end, split_point, missing_action)
        IN  IF missing_action = "Fail"
            THEN /\ split_ix = d.split_ix
                 /\ Zone(ix_arr, st, split_ix) = Zone(d.ix_arr, st, d.split_ix)
                 /\ Zone(ix_arr, split_ix, end + 1) = Zone(d.ix_arr, d.split_ix, end + 1)
            ELSE /\ st_NA = d.st_NA
                 /\ end_NA = d.end_NA
                 /\ Zone(ix_arr, st, st_NA) = Zone(d.ix_arr, st, d.st_NA)
                 /\ Zone(ix_arr, st_NA, end_NA) = Zone(d.ix_arr, d.st_NA, d.end_NA)
                 /\ Zone(ix_arr, end_NA, end + 1) = Zone(d.ix_arr, d.end_NA, end + 1)

(* a sparse call on a column with stored and absent rows in the slice, with
   a threshold that keeps the zeros on the right *)
C5_Witness ==
    /\ Divided /\ pc = "sparse" /\ split_point < 0
    /\ end - st >= 2
    /\ \E r \in Zone(ix_before, st, end + 1) : x[r] = 0
    /\ \E r \in Zone(ix_before, st, end + 1) : x[r] = NaN
    /\ \E r \in Zone(ix_before, st, end + 1) : x[r] = 0 - 2

(* C11: in a full pass opened by shuffle_remainder or prepare_full_pass, with
   drop_col called only on the column just returned, every sample_col(col)
   that returns a column returns one that was available when the pass was
   opened, has not been dropped and has not been returned before in the pass,
   and a sample_col(col) that returns false comes only after every column
   available at the opening has been returned *)
C11_FullPassEnumerates ==
    (/\ prog = "ColumnSampler" /\ in_range
     /\ obs.usage = "pass" /\ obs.call = "sample_col_pass")
        => IF obs.ok
           THEN /\ obs.col \in obs.pass_avail
                /\ obs.col \notin dropped
                /\ ~obs.pass_dup
           ELSE obs.pass_avail \subseteq obs.pass_seen

(* C12: a call of sample_col(col, rng) leaves tree_weights, col_indices,
   curr_pos and n_dropped as they were, and with them get_remaining_cols()
   and the set of columns that can be returned; a column it returns is one of
   the columns available when it was called *)
C12_SampleColFrame ==
    [][(obs'.call = "sample_col" /\ prog = "ColumnSampler")
          => /\ UNCHANGED <<tree_weights, col_indices, curr_pos, n_dropped>>
             /\ get_remaining_cols' = get_remaining_cols
             /\ Available' = Available
             /\ obs'.ok => obs'.col \in Available]_vars

C12_Witness ==
    /\ prog = "ColumnSampler" /\ in_range
    /\ has_weights
    /\ obs.call = "sample_col" /\ obs.ok
    /\ n_dropped > 0
    /\ \E c \in 0 .. n - 1 : c \notin dropped /\ tree_weights[c + offset] = 0
    /\ obs.col \in Available

(* C13: in every reachable state of the sampler get_remaining_cols() is the
   number of distinct columns sample_col(col, rng) can still return *)
C13_RemainingCountsAvailable ==
    (prog = "ColumnSampler" /\ in_range)
        => get_remaining_cols = Cardinality(Available)

(* the state a new sampler has after initialize with these arguments: the
   weighted tree of 2 * 2^ceil(log2 n_cols) entries with leaves max(0, w[i])
   and nothing dropped, or, without usable weights, the unweighted sampler
   with all n_cols columns available *)
FreshState(w, n_cols) ==
    LET levels == log2ceil(n_cols)
        tree == BuildTree(w, n_cols, levels)
    IN  /\ n = n_cols
        /\ IF w = NULL \/ tree[0] <= 0
           THEN /\ ~has_weights
                /\ curr_pos = n_cols
                /\ col_indices = Iota(n_cols)
                /\ Available = 0 .. n_cols - 1
           ELSE /\ tree_weights = tree
                /\ Cardinality(DOMAIN tree_weights) = 2 * pow2(levels)
                /\ \A i \in 0 .. n_cols - 1 :
                      tree_weights[i + offset] = fmax0(w[i])
                /\ tree_levels = levels
                /\ offset = pow2(levels) - 1
                /\ n_dropped = 0

(* C14: after an initialize call on a sampler that was initialized and used
   before, whatever the earlier calls were, the sampler is in the state a new
   sampler has after the same initialize call, and no access outside the
   vectors was made *)
C14_InitializeResets ==
    (prog = "ColumnSampler" /\ obs.call = "initialize" /\ obs.inits > 1)
        => in_range /\ FreshState(weights, obs.arg)

(* weights were given and none of them is positive *)
NoPositiveWeight ==
    weights # NULL /\ \A i \in DOMAIN weights : weights[i] <= 0

(* C15: when every weight is <= 0, ColumnSampler::initialize(weights, n_cols)
   ends without weights, with get_remaining_cols() = n_cols and every column
   available, and the sampler never gets a weight tree later;
   build_btree_sampler ends with an empty tree and log2_n = 0;
   weighted_shuffle returns a permutation of 0..n-1; and neither
   weighted_shuffle nor sample_random_rows reaches its weighted draw loop *)
C15_NoPositiveWeightFallback ==
    NoPositiveWeight
        => /\ prog = "ColumnSampler"
                => /\ ~has_weights
                   /\ obs.call = "initialize"
                        => /\ get_remaining_cols = n
                           /\ Available = 0 .. n - 1
           /\ prog = "sample_random_rows"
                => /\ pc \in {"start", "no_weights"}
                   /\ pc = "no_weights" => btree_weights = <<>> /\ log2_n = 0
           /\ prog = "weighted_shuffle"
                => /\ pc \in {"start", "fallback"}
                   /\ pc = "fallback"
                        => /\ Len(outp) = n
                           /\ {outp[i] : i \in 1 .. n} = 0 .. n - 1

C15_Witness ==
    /\ NoPositiveWeight
    /\ prog = "sample_random_rows" /\ pc = "no_weights"
    /\ \E i, j \in DOMAIN weights : weights[i] < 0 /\ weights[j] = 0
    /\ btree_weights = <<>> /\ log2_n = 0

(* the switchers that hold is_active = true *)
ActiveSwitchers == {o \in Switchers : sw[o].is_active}

(* C16: at any moment at most one SignalSwitcher has is_active = true,
   handle_is_locked is true exactly when there is one, and a constructor that
   ran while another switcher was active left the installed SIGINT handler as
   it found it *)
C16_SingleOwner ==
    prog = "SignalSwitcher"
        => /\ Cardinality(ActiveSwitchers) <= 1
           /\ handle_is_locked <=> ActiveSwitchers # {}
           /\ \A o \in Switchers :
                 (sw[o].at # "unborn" /\ ~sw[o].owned)
                     => sw[o].after = sw[o].before

C16_Witness ==
    /\ prog = "SignalSwitcher"
    /\ \E a, b, c \in Switchers :
          /\ sw[a].at = "dead" /\ sw[a].owned
          /\ sw[b].is_active /\ sw[b].at = "running"
          /\ sw[c].at = "running" /\ ~sw[c].owned
          /\ sw[c].before = set_interrup_global_variable
    /\ handle_is_locked

(* C17: a switcher that took the handler puts back, exactly once, the handler
   that was installed before its constructor, on every way out (the
   destructor after a normal return or an exception, restore_handle, or
   check_interrupt_switch); a destructor or restore_handle after that does
   nothing, so it neither restores again nor clears a lock that another
   switcher holds now; and with no switcher active the lock is clear and the
   handler is the one the caller had *)
C17_RestoredOnceOnExit ==
    prog = "SignalSwitcher"
        => /\ \A o \in Switchers :
                 /\ sw[o].restores <= 1
                 /\ sw[o].restores = 1 => sw[o].owned /\ ~sw[o].is_active
                 /\ sw[o].owned => sw[o].old_sig = build.first_sig
                 /\ sw[o].at = "dead"
                      => /\ ~sw[o].is_active
                         /\ sw[o].restores = (IF sw[o].owned THEN 1 ELSE 0)
           /\ (\A o \in Switchers : sw[o].owned => sw[o].restores = 1)
                 => ~handle_is_locked /\ sigint = build.first_sig
           /\ handle_is_locked
                 => \E o \in Switchers : sw[o].owned /\ sw[o].restores = 0

C17_Witness ==
    /\ prog = "SignalSwitcher"
    /\ \E a, b, c \in Switchers :
          /\ sw[a].at = "dead" /\ sw[a].via = "check_interrupt_switch"
          /\ sw[b].at = "dead" /\ sw[b].via = "restore_handle"
          /\ sw[c].at = "dead" /\ sw[c].via = "destructor"
    /\ ~handle_is_locked /\ sigint = build.first_sig

(* a <= 2^e, for e up to 64 *)
LeqPow2(a, e) ==
    \/ e > TopBit
    \/ /\ \A i \in Limbs : i > e \div 8 => a[i] = 0
       /\ a[e \div 8] <= pow2(e % 8)
       /\ a[e \div 8] = pow2(e % 8) => \A i \in 0 .. (e \div 8) - 1 : a[i] = 0

(* the smallest e with 2^e >= a *)
CeilLog2(a) == CHOOSE e \in 0 .. TopBit + 1 :
                  LeqPow2(a, e) /\ \A f \in 0 .. e - 1 : ~LeqPow2(a, f)

(* C18: for every n >= 1, n = 1 and the exact powers of two included,
   log2ceil(n) returns the smallest e with 2^e >= n *)
C18_Log2CeilExact ==
    (prog = "log2ceil" /\ pc = "return") => result = CeilLog2(value64)

(* C20: for the n of the behaviour, ix_comb maps the pairs i < j < n one to
   one onto 0 .. n(n-1)/2 - 1, with no difference going below zero; no call
   reaches outside the counter; and after tmat_to_dense both dmat[i][j] and
   dmat[j][i] hold the amount accumulated for the pair {i, j} by the
   increase_comb_counter calls before it, and the diagonal holds 1 or 0 as
   diag_to_one says *)
C20_CombIndexBijection ==
    prog = "increase_comb_counter"
        => LET ncomb == (n * (n - 1)) \div 2
               image == {ix_comb(p[1], p[2], n, ncomb) : p \in PointPairs(n)}
           IN  /\ image = 0 .. ncomb - 1
               /\ Cardinality(PointPairs(n)) = ncomb
               /\ in_range
               /\ pc = "dense"
                    => /\ \A p \in PointPairs(n) :
                             /\ dmat[p[1] + p[2] * n] = acc[p]
                             /\ dmat[p[2] + p[1] * n] = acc[p]
                       /\ \A i \in 0 .. n - 1 :
                             dmat[i + i * n] = IF diag_to_one THEN 1 ELSE 0

C20_Witness ==
    /\ prog = "increase_comb_counter" /\ pc = "dense"
    /\ n = MaxPoints /\ calls = MaxCalls
    /\ weights # NULL /\ exp_remainder > 1
    /\ \E p, q \in PointPairs(n) : acc[p] > acc[q] /\ acc[q] > 0
    /\ \E p \in PointPairs(n) : dmat[p[1] + p[2] * n] = 0
    /\ diag_to_one

(* C19: for slices with every row below split_ix in front of every row at or
   above it, the calls of increase_comb_counter_in_groups stay inside the
   counter, the entry of every cross-group pair i < split_ix <= j holds the
   expected amount once for each call whose slice holds both rows, distinct
   pairs have distinct entries, and an entry that belongs to no pair is
   untouched *)
C19_GroupsCountCrossPairs ==
    prog = "increase_comb_counter_in_groups"
        => LET nn == n - split_ix
               pairs == CrossPairs(n, split_ix)
               image == {GroupIx(p[1], p[2], nn, split_ix) : p \in pairs}
           IN  /\ in_range
               /\ image \subseteq DOMAIN counter
               /\ Cardinality(image) = Cardinality(pairs)
               /\ \A p \in pairs :
                     counter[GroupIx(p[1], p[2], nn, split_ix)] = acc[p]
               /\ \A k \in DOMAIN counter : k \notin image => counter[k] = 0

C19_Witness ==
    /\ prog = "increase_comb_counter_in_groups"
    /\ n = MaxPoints /\ split_ix = 2 /\ calls = MaxCalls
    /\ weights # NULL /\ exp_remainder > 1 /\ st > 0
    /\ \E p, q \in CrossPairs(n, split_ix) :
          /\ acc[p] = 0 /\ counter[GroupIx(p[1], p[2], n - split_ix, split_ix)] = 0
          /\ acc[q] > 0 /\ counter[GroupIx(q[1], q[2], n - split_ix, split_ix)] = acc[q]

(* the prediction-time call has returned *)
Predicted == prog = "predict_split" /\ pc = "predicted"

(* a category the node did not see when it was split *)
Unseen(code) == code >= ncat \/ (code \in 0 .. ncat - 1 /\ split_categ[code] = -1)

(* the left zone: [st, split_ix) when only split_ix is reported *)
PredictLeft ==
    IF missing_action = "Fail" /\ new_cat_action # "Weighted"
    THEN Zone(ix_arr, st, split_ix)
    ELSE Zone(ix_arr, st, st_NA)

(* C21: the prediction-time divide_subset_split on a subset-encoded
   categorical column, for every MissingAction: with NewCategAction Weighted
   the rows with an unseen category (table entry -1, or code >= ncat) end in
   [st_NA, end_NA) together with the rows with negative codes; with Smallest
   and move_new_to_left the rows with an unseen category end in the left
   zone; rows with table entry 1 always end in the left zone; and the table
   is never read outside [0, ncat) *)
C21_UnseenCategoriesByPolicy ==
    Predicted =>
        LET rows == Zone(ix_before, st, end + 1)
        IN  /\ in_range
            /\ {r \in rows : x[r] \in 0 .. ncat - 1 /\ split_categ[x[r]] = 1}
                   \subseteq PredictLeft
            /\ new_cat_action = "Weighted" =>
                   Zone(ix_arr, st_NA, end_NA) = {r \in rows : x[r] < 0 \/ Unseen(x[r])}
            /\ (new_cat_action = "Smallest" /\ move_new_to_left) =>
                   {r \in rows : Unseen(x[r])} \subseteq PredictLeft

(* the table that holds 1 at category k and 0 elsewhere *)
OneHot(k) == [c \in 0 .. 2 |-> IF c = k THEN 1 ELSE 0]

(* with MissingAction Fail the caller passes no missing values *)
FailHasNoMissing ==
    missing_action = "Fail" => \A r \in Zone(ix_before, st, end + 1) : x[r] >= 0

(* C22: the single-category divide_subset_split yields the same final ix_arr
   and the same boundaries (split_ix, or st_NA and end_NA) as the
   subset-encoded one called with a table holding 1 at the split category
   and 0 elsewhere, for every slice, column, category and MissingAction *)
C22_SingleEqualsSubset ==
    (Divided /\ pc = "single" /\ FailHasNoMissing) =>
        \A before \in {0, 1} :
            LET d == CategSubset(ix_before, x, st, end, OneHot(split_categ),
                                 before, missing_action)
            IN  /\ ix_arr = d.ix_arr
                /\ split_ix = d.split_ix
                /\ st_NA = d.st_NA
                /\ end_NA = d.end_NA

(* a single-category call that looks at missing values, on a slice with a
   row of the split category, a row of a lower one and a missing one, that
   reordered the slice *)
C22_Witness ==
    /\ Divided /\ pc = "single" /\ missing_action # "Fail"
    /\ \E r \in Zone(ix_before, st, end + 1) : x[r] = split_categ
    /\ \E r \in Zone(ix_before, st, end + 1) : x[r] >= 0 /\ x[r] < split_categ
    /\ \E r \in Zone(ix_before, st, end + 1) : x[r] < 0
    /\ ix_arr # ix_before

(* the unweighted sample_random_rows has returned *)
Redrawn == prog = "sample_random_rows_unweighted" /\ pc = "done"

(* C23: for fixed nrows, ntake, replacement flag and numbers from the random
   engine, the unweighted sample_random_rows leaves in ix_arr the same rows
   whatever ix_all, is_repeated and ix_arr held before the call: the rows
   it leaves are those of the same call made on fresh vectors *)
C23_RowsReproducible ==
    Redrawn => ix_arr = twin.ix_arr

(* a call without replacement that took Floyd's algorithm with the boolean
   vector, entered with every mark set and with ix_all and ix_arr holding
   values of an earlier call, and that drew a row *)
C23_Witness ==
    /\ Redrawn /\ ~with_replacement
    /\ ntake >= 1 /\ ntake < n \div 2 /\ ntake * 20 > n
    /\ twin.entry.is_repeated # <<>>
    /\ \A i \in DOMAIN twin.entry.is_repeated : twin.entry.is_repeated[i]
    /\ twin.entry.ix_all # <<>>
    /\ twin.entry.ix_arr[0] = n
    /\ ix_arr[0] < n - 1

(* C24: expected_separation_depth(n) for n >= 2 is not below its value at
   n - 1, whether both come from the table, the recurrence or the checkpoint
   constants or n is the first of a regime; it never exceeds 3; and for n in
   2..10 it is the tabulated value, 1.84 for n = 6 *)
C24_SeparationDepthMonotone ==
    prog = "expected_separation_depth" =>
        /\ FxLeq(s_l, s_u)
        /\ FxLeq(s_u, FxInt(3))
        /\ n_final \in 2 .. 10 => s_u = SeparationTable[n_final]
        /\ n_final = 6 => s_u = <<1, 840, 0, 0, 0>>

(* the first checkpoint: the recurrence has come above 2.9799 at n = 1359
   and the constant 2.98 is returned for 1360 *)
C24_Witness ==
    /\ prog = "expected_separation_depth" /\ n_final = 1360
    /\ FxLess(<<2, 979, 900, 0, 0>>, s_l)
    /\ FxLess(s_l, s_u)
    /\ s_u = <<2, 980, 0, 0, 0>>

(* the fractional overload has returned *)
InterpolatedCall == prog = "expected_separation_depth" /\ pc = "interpolated"

(* C27: expected_separation_depth(long double n) interpolates linearly: for a
   non-integer n with 2 < n < 87670 the result lies between the values
   at floor(n) and ceil(n) and never exceeds 3, and for an integer-valued n
   it equals the integer overload *)
C27_FractionalInterpolates ==
    InterpolatedCall =>
        IF interp.quarters = 0
        THEN interp.value = s_l
        ELSE /\ FxLeq(s_l, interp.value)
             /\ FxLeq(interp.value, s_u)
             /\ FxLeq(interp.value, FxInt(3))

(* every leaf a descent from the root can end on belongs to an item below
   nitems that has not been removed and it holds a positive weight *)
LandsOnPositiveLeaf(tree, levels, first, w, nitems, removed) ==
    tree[0] > 0 =>
        \A leaf \in Descend(tree, 0, 0, levels) :
            /\ leaf - first \in 0 .. nitems - 1
            /\ tree[leaf] > 0
            /\ w[leaf - first] > 0
            /\ leaf - first \notin removed

(* C25: in a weight tree that satisfies the sum invariant and has a positive
   root, whatever value in [0, weight of the current subtree) is drawn at each
   level, the descent (right iff the value is >= the left child's weight) ends
   on a leaf of an item below n whose current weight is positive: not an item
   already removed, not an item of zero weight, not a padding leaf *)
C25_DescentEndsOnPositiveLeaf ==
    /\ (prog = "weighted_shuffle" /\ buffer_arr # <<>>)
          => LandsOnPositiveLeaf(buffer_arr, tree_levels, pow2(tree_levels) - 1,
                                 weights, n, Range(outp))
    /\ (prog = "sample_random_rows" /\ btree_weights # <<>>)
          => LandsOnPositiveLeaf(btree_weights, log2_n, btree_offset, weights, n,
                                 {ix_arr[i] : i \in 0 .. loop_ix - 1})
    /\ (prog = "ColumnSampler" /\ has_weights)
          => LandsOnPositiveLeaf(tree_weights, tree_levels, offset, weights, n, dropped)

(* sample_random_rows on three rows, one of them of zero weight, after a first
   weighted draw that left positive weight in the tree: the tree has a removed
   leaf, a zero leaf and a padding leaf *)
C25_Witness ==
    /\ prog = "sample_random_rows" /\ btree_weights # <<>>
    /\ n = 3 /\ loop_ix = 1
    /\ btree_weights[0] > 0
    /\ \E i \in 0 .. n - 1 : weights[i] <= 0

(* a get_range call has returned *)
Ranged == prog = "get_range" /\ pc \in {"dense", "sparse"}

(* the values of the slice that are not missing *)
PresentValues == {x[ix_before[i]] : i \in st .. end} \ {NaN}

(* C26: on a CSC column with sorted row indices and a slice sorted
   non-decreasing, repeated rows allowed, the sparse get_range reports the
   same unsplittable flag and, when splittable, the same xmin and xmax as the
   dense get_range on the column with absent rows as 0; and both report
   unsplittable exactly when the smallest value equals the largest or no
   value of the slice is non-missing *)
C26_SparseRangeEqualsDense ==
    Ranged =>
        /\ unsplittable = (Cardinality(PresentValues) <= 1)
        /\ pc = "sparse" =>
              LET d == DenseRange(ix_before, x, st, end, missing_action)
              IN  /\ unsplittable = d.unsplittable
                  /\ ~unsplittable => (xmin = d.xmin /\ xmax = d.xmax)

(* C28: harmonic(n) returns for every n from 0 to 256, harmonic_recursive(1,
   n + 1) reaching its base case b == a + 1 on every branch; so digamma(x)
   returns for every positive integer x <= 256, x = 1 included, and
   expected_avg_depth(n) returns for every n >= 0 *)
C28_HarmonicReturns ==
    (prog \in HarmonicCallers) => <>(pc = "returned")

(* the same for the calls that reach harmonic() with an argument above 0 *)
C28_ReturnsAboveZero ==
    (prog \in HarmonicCallers /\ HarmonicArgument(prog, n) # 0) => <>(pc = "returned")

(* the sparse call on the empty column has returned *)
EmptyDivided == prog = "sparse_empty_column" /\ pc = "sparse"

(* where every row of the slice goes when all are implicit zeros *)
ZeroBoundary == IF 0 <= split_point THEN end + 1 ELSE st

(* C29: the sparse divide_subset_split on a column with no stored entries
   classifies every row as an implicit 0 (boundary end + 1 when
   0 <= threshold, st otherwise, with an empty missing zone), and reads no
   element of Xc_ind or Xc outside the column's empty range, also when the
   column is the first or the last of the matrix *)
C29_EmptyColumn ==
    EmptyDivided =>
        /\ IF missing_action = "Fail"
           THEN split_ix = ZeroBoundary
           ELSE st_NA = ZeroBoundary /\ end_NA = ZeroBoundary
        /\ in_range

(* C30: a SIGINT delivered at any point while the library's handler is
   installed, also while the interrupted thread is inside the critical region
   of the SignalSwitcher constructor (after signal() installed the handler)
   or of restore_handle (before signal() restored the old one), lets
   set_interrup_global_variable run to completion with interrupt_switch set to
   true, after which the interrupted operation continues *)
C30_InterruptNeverDeadlocks ==
    (handler_at = "entered") ~> (handler_at = "returned")

(* the same for a SIGINT that finds the thread outside every critical region *)
C30_OutsideCriticalRegions ==
    (handler_at = "entered" /\ critical = "") ~> (handler_at = "returned")

====
